---- MODULE Spec2Model ----
(***************************************************************************)
(* Model of the Actions Service (ms3): the classification pull-sync        *)
(* pipeline, the push-webhook pipeline and the entity repository over the  *)
(* three work-item tables tasks, todos and followups.                      *)
(*                                                                         *)
(* Text is modelled as a sequence of one-character strings, so that        *)
(* slicing, prefix tests and length limits are computed as the code        *)
(* computes them.  A Python None is the value None below.                  *)
(***************************************************************************)
EXTENDS Integers, Sequences, FiniteSets, TLC

\* ----------------------------------------------------------------- bounds
\* SpecSync: longest list of classification records the one sync call fetches
MaxBatch == 3
\* SpecWebhook: longest batch of one webhook call, most rows the tables hold
MaxMessages == 2
MaxRows == 2
\* SpecRecord: largest upstream priority drawn (the upstream scale is 1..10)
MaxUpstreamPriority == 12
\* Spec (every entry point interleaved): the same three limits, kept short
MixBatch == 1
MixMessages == 1
MixRows == 1
\* SpecPool: connections in the pool (pool_size, 5 unless configured), ticks
\* of the store's clock, most rows the tasks table holds
PoolSize == 2
MaxClock == 1
MaxPoolRows == 2
\* SpecList: most rows of the owner in the table that is listed
MaxListRows == 15
\* SpecRoundTrip: most rows created before the fetch
RoundTripRows == 1
\* records per fetch when the loop's creates run through the pool
PoolBatch == 2
\* records per fetch of a sync call other requests are interleaved with
InterleavedBatch == 2
\* SpecResync: rows the repeated sync calls may store
ResyncRows == 2

\* ------------------------------------------------------------ basic values
\* Python None / JSON null (not a text: its only element is not a character)
None == <<"None">>

\* n copies of the character c
Rep(c, n) == [i \in 1..n |-> c]

\* Python s[:k]
Prefix(s, k) == SubSeq(s, 1, IF Len(s) < k THEN Len(s) ELSE k)

Min(a, b) == IF a < b THEN a ELSE b
Max(a, b) == IF a > b THEN a ELSE b

\* -------------------------------------------------------------- models/task
TaskStatus == {"open", "done"}
MessageType == {"email", "slack"}
Classification == {"todo", "followup", "noise"}

\* Field(ge=1, le=5) of TaskCreate / TodoCreate / FollowupCreate / *Update
PriorityMin == 1
PriorityMax == 5

\* TaskCreate without the Field(ge=1, le=5) constraint on priority
TaskCreateAnyPriority(item) ==
    /\ item.source_msg_id # None
    /\ item.title # None
    /\ item.sender # None
    /\ item.status \in TaskStatus
    /\ item.message_type \in MessageType

\* pydantic validation of TaskCreate(**fields): user_id int, texts are str,
\* subject Optional[str], priority within Field(ge=1, le=5)
TaskCreateValid(item) ==
    /\ item.source_msg_id # None
    /\ item.title # None
    /\ item.sender # None
    /\ item.status \in TaskStatus
    /\ item.message_type \in MessageType
    /\ item.priority >= PriorityMin
    /\ item.priority <= PriorityMax

\* ------------------------------------------------------- services/database
\* the three tables: sets of rows, each with its auto-increment counter
VARIABLES tasks, todos, followups, nextId

\* the limits of the exploration, fixed by the initial condition:
\* [batch, messages, rows]; an insert is explored only below caps.rows, and
\* the history checked_out counts up to caps.held
VARIABLE caps

\* the response the latest step sent to its caller (NoResponse: none)
VARIABLE response

\* DatabaseManager: the connection pool and the repository call in flight
VARIABLES
    pool,       \* self._pool: "absent" (None) or "present"
    free,       \* connections idle in the pool's queue
    attempts,   \* creation attempts made by the _initialize_pool in progress
    degraded,   \* history: some initialization has used up its attempts
    db_pc,      \* where the repository call in flight is
    db_call,    \* the repository call in flight or last finished
    db_result,  \* what the last finished repository call gave its caller
    clock,      \* the store's current time, in ticks
    checked_out, \* history: connections taken from a pool of the manager and
                 \* not given back by close(), counted up to caps.held
    acquire_tries \* history: creation attempts the _get_connection in
                  \* progress has made (0 when none is in progress)

poolVars == <<pool, free, attempts, degraded, db_pc, db_call, db_result,
              clock, checked_out, acquire_tries>>

\* ClassificationHandler text heuristics applied to one text
VARIABLES
    text_in,    \* [task_text, classification] drawn
    text_out    \* the results computed for it

textVars == <<text_in, text_out>>

\* one get_tasks call on a stored table
VARIABLES
    list_in,    \* the arguments of the call
    list_out    \* (tasks, total) it returned

listVars == <<list_in, list_out>>

\* the DatabaseManager objects of the process and the _pool attribute each
\* of them holds
VARIABLES
    class_pool, \* DatabaseManager._pool, the class attribute: 0 is None,
                \* k > 0 the k-th pool object made
    managers    \* per module-level db object: made (constructed), own (the
                \* object has an attribute _pool of its own), pool (its value)

managerVars == <<class_pool, managers>>
NoResponse == [endpoint |-> "", status |-> 0]

Tables == {"tasks", "todos", "followups"}
RowsOf(table) ==
    CASE table = "tasks" -> tasks
      [] table = "todos" -> todos
      [] table = "followups" -> followups

\* the three table variables after `table` becomes `rows`
SetTable(table, rows) ==
    /\ tasks' = IF table = "tasks" THEN rows ELSE tasks
    /\ todos' = IF table = "todos" THEN rows ELSE todos
    /\ followups' = IF table = "followups" THEN rows ELSE followups

RowCount == Cardinality(tasks) + Cardinality(todos) + Cardinality(followups)

\* outcomes of one repository call, decided by the store:
\*   "ok"          the statement ran and was committed
\*   "unavailable" _get_connection returned None
\*   "error"       the statement raised a data-layer Error (rolled back)
StoreOutcomes == {"ok", "unavailable", "error"}

\* the row that create_task / create_todo / create_followup inserts
\* resources/tasks.py lines 19-20, 34-35, 103-104, 115-116 (todo.py and
\* followup.py alike): the status an entry point answers with when the
\* repository method it calls returns None or False
FailureStatus(kind) ==
    CASE kind = "create_task" -> 500
      [] kind = "get_task"    -> 404
      [] kind = "update_task" -> 404
      [] kind = "delete_task" -> 404

\* the columns the INSERT statement does not name: the table gives both
\* timestamps the time of the insert
ColumnDefaults == [created_at |-> clock, updated_at |-> clock]

\* an INSERT that stores the default status whatever the body gives
InsertedRowWithDefaultStatus(id, item) ==
    [ id            |-> id,
      user_id       |-> item.user_id,
      source_msg_id |-> item.source_msg_id,
      title         |-> item.title,
      status        |-> "open",
      due_at        |-> item.due_at,
      priority      |-> IF item.priority = 0 THEN 1 ELSE item.priority,
      message_type  |-> item.message_type,
      sender        |-> item.sender,
      subject       |-> item.subject,
      created_at    |-> ColumnDefaults.created_at,
      updated_at    |-> ColumnDefaults.updated_at ]

InsertedRow(id, item) ==
    [ id            |-> id,
      user_id       |-> item.user_id,
      source_msg_id |-> item.source_msg_id,
      title         |-> item.title,
      status        |-> item.status,
      due_at        |-> item.due_at,
      priority      |-> IF item.priority = 0 THEN 1 ELSE item.priority,
      message_type  |-> item.message_type,
      sender        |-> item.sender,
      subject       |-> item.subject,
      created_at    |-> ColumnDefaults.created_at,
      updated_at    |-> ColumnDefaults.updated_at ]

\* return value of create_*: the new id, or None (modelled as 0)
CreatedId(table, outcome) == IF outcome = "ok" THEN nextId[table] ELSE 0

\* the table after create_*
\* an insert that is skipped when the table holds a row of the same owner
\* and message already
TableAfterCreateOnce(rows, table, item, outcome) ==
    IF outcome = "ok"
       /\ ~\E r \in rows : r.user_id = item.user_id /\ r.source_msg_id = item.source_msg_id
    THEN rows \cup {InsertedRow(nextId[table], item)}
    ELSE rows

TableAfterCreate(rows, table, item, outcome) ==
    IF outcome = "ok" THEN rows \cup {InsertedRow(nextId[table], item)}
    ELSE rows

NextIdAfterCreate(table, outcome) ==
    IF outcome = "ok" THEN [nextId EXCEPT ![table] = @ + 1] ELSE nextId

\* ------------------------------------------ services/classification_handler
UpperChars == <<"A","B","C","D","E","F","G","H","I","J","K","L","M",
                "N","O","P","Q","R","S","T","U","V","W","X","Y","Z">>
LowerChars == <<"a","b","c","d","e","f","g","h","i","j","k","l","m",
                "n","o","p","q","r","s","t","u","v","w","x","y","z">>
Digits == <<"0","1","2","3","4","5","6","7","8","9">>
Whitespace == {" ", "\t", "\n"}

IndexIn(c, chars) == CHOOSE i \in 1..Len(chars) : chars[i] = c
IsUpper(c) == \E i \in 1..Len(UpperChars) : UpperChars[i] = c
IsLower(c) == \E i \in 1..Len(LowerChars) : LowerChars[i] = c
IsDigit(c) == \E i \in 1..Len(Digits) : Digits[i] = c
DigitValue(c) == IndexIn(c, Digits) - 1

\* str.lower() and the upper() of one character
LowerChar(c) == IF IsUpper(c) THEN LowerChars[IndexIn(c, UpperChars)] ELSE c
UpperChar(c) == IF IsLower(c) THEN UpperChars[IndexIn(c, LowerChars)] ELSE c
LowerText(s) == [i \in 1..Len(s) |-> LowerChar(s[i])]

\* str.strip()
Strip(s) ==
    LET keep == {i \in 1..Len(s) : s[i] \notin Whitespace} IN
    IF keep = {} THEN <<>>
    ELSE SubSeq(s, CHOOSE i \in keep : \A j \in keep : i <= j,
                   CHOOSE i \in keep : \A j \in keep : i >= j)

\* str.startswith(prefix)
StartsWith(s, prefix) ==
    Len(s) >= Len(prefix) /\ SubSeq(s, 1, Len(prefix)) = prefix

\* "needle in s"
Contains(s, needle) ==
    \E i \in 1..(Len(s) - Len(needle) + 1) :
        SubSeq(s, i, i + Len(needle) - 1) = needle

\* s[k:]
DropFirst(s, k) == SubSeq(s, k + 1, Len(s))

\* lines 17-26: due_date_keywords, in insertion order
due_date_keywords ==
    << [keyword |-> <<"t","o","d","a","y">>,                 days |-> 0],
       [keyword |-> <<"t","o","m","o","r","r","o","w">>,     days |-> 1],
       [keyword |-> <<"a","s","a","p">>,                     days |-> 0],
       [keyword |-> <<"u","r","g","e","n","t">>,             days |-> 0],
       [keyword |-> <<"t","h","i","s"," ","w","e","e","k">>, days |-> 7],
       [keyword |-> <<"n","e","x","t"," ","w","e","e","k">>, days |-> 14],
       [keyword |-> <<"e","o","d">>,                         days |-> 0],
       [keyword |-> <<"e","o","w">>,                         days |-> 7] >>

\* lines 131-134: prefixes_to_remove, in list order
prefixes_to_remove ==
    << <<"t","a","s","k",":">>,
       <<"t","o","d","o",":">>,
       <<"a","c","t","i","o","n"," ","i","t","e","m",":">>,
       <<"f","o","l","l","o","w"," ","u","p",":">>,
       <<"f","o","l","l","o","w","u","p",":">>,
       <<"r","e","p","l","y"," ","t","o">> >>

ReplyWord == <<"r","e","p","l","y">>
ReplyPrefix == <<"R","e","p","l","y",":"," ">>

\* line 148: the title limit, and line 149: the characters kept before "..."
TitleMaxLen == 200
TitleKeptLen == 197

\* lines 137-139: the loop over prefixes_to_remove, from prefix number k on
RECURSIVE RemovePrefixes(_, _)
RemovePrefixes(clean_text, k) ==
    IF k > Len(prefixes_to_remove) THEN clean_text
    ELSE IF StartsWith(LowerText(clean_text), prefixes_to_remove[k])
         THEN RemovePrefixes(Strip(DropFirst(clean_text, Len(prefixes_to_remove[k]))), k + 1)
         ELSE RemovePrefixes(clean_text, k + 1)

\* lines 129-151
_clean_task_title(task_text, classification) ==
    LET stripped == RemovePrefixes(Strip(task_text), 1)
        replied == IF classification = "followup"
                      /\ ~StartsWith(LowerText(stripped), ReplyWord)
                   THEN ReplyPrefix \o stripped
                   ELSE stripped
        capital == IF replied # <<>>
                   THEN <<UpperChar(replied[1])>> \o DropFirst(replied, 1)
                   ELSE replied
    IN IF Len(capital) > TitleMaxLen
       THEN Prefix(capital, TitleKeptLen) \o <<".", ".", ".">>
       ELSE capital

\* datetime.now(): the day the handler runs (a leap year, past February)
Now == [year |-> 2024, month |-> 3, day |-> 15]

\* an absent due date, now + k days, and the calendar day month/day of year
DueInDays(k) == <<"days", k>>
DueOn(year, month, day) == <<"date", year, month, day>>

IsLeap(y) == (y % 4 = 0 /\ y % 100 # 0) \/ y % 400 = 0
DaysInMonth(y, m) ==
    IF m = 2 THEN (IF IsLeap(y) THEN 29 ELSE 28)
    ELSE IF m \in {4, 6, 9, 11} THEN 30 ELSE 31
\* datetime(year, month, day) does not raise ValueError
ValidDate(y, m, d) == m >= 1 /\ m <= 12 /\ d >= 1 /\ d <= DaysInMonth(y, m)

\* regex \w and \b
IsWordChar(c) == IsUpper(c) \/ IsLower(c) \/ IsDigit(c) \/ c = "_"
WordAt(s, i) == i >= 1 /\ i <= Len(s) /\ IsWordChar(s[i])
DigitAt(s, i) == i >= 1 /\ i <= Len(s) /\ IsDigit(s[i])
NumberAt(s, i, n) ==
    IF n = 1 THEN DigitValue(s[i]) ELSE 10 * DigitValue(s[i]) + DigitValue(s[i + 1])

\* line 112: \b(\d{1,2})/(\d{1,2})\b matches at position i with groups of
\* a and b digits
DateMatchAt(s, i, a, b) ==
    /\ ~WordAt(s, i - 1)
    /\ \A k \in 0..(a - 1) : DigitAt(s, i + k)
    /\ i + a <= Len(s) /\ s[i + a] = "/"
    /\ \A k \in 1..b : DigitAt(s, i + a + k)
    /\ ~WordAt(s, i + a + b + 1)
DateMatches(s) ==
    {m \in (1..Len(s)) \X {1, 2} \X {1, 2} : DateMatchAt(s, m[1], m[2], m[3])}

\* a lookup that returns the last keyword of the table found in the text
RECURSIVE LastKeyword(_, _)
LastKeyword(task_lower, k) ==
    IF k > Len(due_date_keywords) THEN 0
    ELSE LET later == LastKeyword(task_lower, k + 1)
         IN IF later > 0 THEN later
            ELSE IF Contains(task_lower, due_date_keywords[k].keyword) THEN k
            ELSE 0

\* lines 104-127
RECURSIVE FirstKeyword(_, _)
FirstKeyword(task_lower, k) ==
    IF k > Len(due_date_keywords) THEN 0
    ELSE IF Contains(task_lower, due_date_keywords[k].keyword) THEN k
    ELSE FirstKeyword(task_lower, k + 1)

_extract_due_date(task_text) ==
    LET k == FirstKeyword(LowerText(task_text), 1)
        found == DateMatches(task_text)
    IN IF k > 0 THEN DueInDays(due_date_keywords[k].days)
       ELSE IF found = {} THEN None
       ELSE LET first == CHOOSE m \in found : \A o \in found : m[1] <= o[1]
                month == NumberAt(task_text, first[1], first[2])
                day == NumberAt(task_text, first[1] + first[2] + 1, first[3])
            IN IF ~ValidDate(Now.year, month, day) THEN None
               ELSE IF month < Now.month \/ (month = Now.month /\ day <= Now.day)
                    THEN (IF ValidDate(Now.year + 1, month, day)
                          THEN DueOn(Now.year + 1, month, day) ELSE None)
                    ELSE DueOn(Now.year, month, day)

\* history: what the webhook call of the latest step did with each message
VARIABLE webhook_log

\* SpecRecord only: one record through the loop body
VARIABLES
    cls_in,      \* the record drawn
    message_in,  \* what get_message answers for it
    row_out      \* the row stored for it when the store accepts the insert

recordVars == <<cls_in, message_in, row_out>>

\* ------------------------------------------- resources/classifications: sync
\* state of the sync request in flight (one request at a time)
VARIABLES
    sync_pc,            \* "idle", "loop" (inside the for loop), "returned"
    sync_user_id,       \* the user_id query parameter of the request
    db_user_id,         \* owner key resolved from the caller's user_id
    classifications_len,\* len(classifications) of the fetched list
    sync_i,             \* number of records the loop has consumed
    tasks_created,
    followups_created,
    errors,             \* the errors list, in append order
    fetch_state,        \* history: "none", "failed" or "ok" for the last fetch
    sync_log            \* history: per consumed record, what happened to it

\* JSON null as a label / a priority that is not a number
JsonNull == "<null>"
NotANumber == [t |-> "str", v |-> 0]
IntPriority(p) == [t |-> "int", v |-> p]

\* caller-supplied owner identifiers: a numeral, an opaque string, and the
\* numeral of the key the opaque string resolves to
UserIds ==
    { <<"7">>,
      <<"a","l","i","c","e">>,
      <<"6","6","9","6","5","3","1","7","0">> }

\* hashlib.md5(user_id.encode()).hexdigest()[:8] of the identifiers drawn
md5_hexdigest_8(user_id) ==
    CASE user_id = <<"7">>                     -> <<"8","f","1","4","e","4","5","f">>
      [] user_id = <<"a","l","i","c","e">>     -> <<"6","3","8","4","e","2","b","2">>
      [] user_id = <<"6","6","9","6","5","3","1","7","0">>
                                               -> <<"5","6","d","8","c","0","f","3">>

\* int(text) succeeds on a numeral (for the identifiers drawn: digits only)
IsNumeral(text) == text # <<>> /\ \A i \in 1..Len(text) : IsDigit(text[i])
RECURSIVE int(_)
int(text) ==
    IF text = <<>> THEN 0
    ELSE 10 * int(SubSeq(text, 1, Len(text) - 1)) + DigitValue(text[Len(text)])

\* line 105: int(hex, 16) % 10**9, computed digit by digit so that every
\* intermediate value stays below 2^31
OwnerKeyRange == 1000000000
RECURSIVE HexMod(_)
HexMod(hex) ==
    LET HexDigits == <<"0","1","2","3","4","5","6","7","8","9",
                       "a","b","c","d","e","f">>
        Twice(x) == (2 * x) % OwnerKeyRange
    IN IF hex = <<>> THEN 0
       ELSE (Twice(Twice(Twice(Twice(HexMod(SubSeq(hex, 1, Len(hex) - 1))))))
               + (IndexIn(hex[Len(hex)], HexDigits) - 1)) % OwnerKeyRange

\* an owner resolution that hashes every identifier, numerals included
ResolveOwnerHashingAll(user_id) == HexMod(md5_hexdigest_8(user_id))

\* lines 99-105: int(user_id), else int(md5(user_id).hexdigest()[:8], 16) % 10**9
ResolveOwner(user_id) ==
    IF IsNumeral(user_id) THEN int(user_id)
    ELSE HexMod(md5_hexdigest_8(user_id))

\* cls.get('label', '').lower() on the labels the upstream is modelled to send
Lower(label) ==
    CASE label = "NOISE" -> "noise"
      [] label = "Todo"  -> "todo"
      [] OTHER           -> label

\* the mapping with the half rounded up instead of floored
priority_rounded_up(priority) == Min(Max((priority + 1) \div 2, 1), 5)

\* line 140: min(max(priority // 2, 1), 5)
priority_1_5(priority) == Min(Max(priority \div 2, 1), 5)

\* classification ids: a short one and one longer than 8 characters
ClsShort == <<"c", "1">>
ClsLong == <<"a", "1", "b", "2", "c", "3", "d", "4", "e", "5">>

\* the msg_id the upstream pairs with a cls_id
MsgIdOf(cls_id) == <<"m">> \o Prefix(cls_id, 2)

\* what one element of the fetched JSON array can be: an object with the
\* four fields (a wrong-case label, an unknown label, a null label and a
\* priority that is not a number included), or a JSON value that is no object
Rec(c, l, p) == [shape |-> "object", cls_id |-> c, msg_id |-> MsgIdOf(c),
                 label |-> l, priority |-> p]
NonObject == [shape |-> "nonobject", cls_id |-> <<>>, msg_id |-> <<>>,
              label |-> "", priority |-> NotANumber]
ClassificationRecords ==
    { Rec(ClsLong, "todo", IntPriority(1)),
      Rec(ClsShort, "followup", IntPriority(12)),
      Rec(ClsShort, "noise", IntPriority(4)),
      Rec(ClsShort, "NOISE", IntPriority(4)),
      Rec(ClsShort, "task", IntPriority(4)),
      Rec(ClsShort, JsonNull, IntPriority(4)),
      Rec(ClsLong, "todo", NotANumber),
      NonObject }

\* title_len of line 161: body[:100]
BodyTitleLen == 100
Ellipsis == <<".", ".", ".">>
DefaultTitlePrefix ==
    <<"T","a","s","k"," ","f","r","o","m"," ","c","l","a","s","s","i","f",
      "i","c","a","t","i","o","n"," ">>
ClsIdTitleLen == 8

\* what integrations_client.get_message can return: None on every failure
\* (404, non-2xx, timeout, request error), else the JSON object.  None is
\* the record NoMessage (found = FALSE), a JSON object has found = TRUE.
NoMessage == [found |-> FALSE, sender |-> None, subject |-> None,
              body |-> None, type |-> "email"]
MsgSubject == [found |-> TRUE, sender |-> <<"a">>, subject |-> <<"H", "i">>,
               body |-> <<"y", "o">>, type |-> "email"]
MsgBody == [found |-> TRUE, sender |-> <<"b">>, subject |-> None,
            body |-> Rep("x", BodyTitleLen + 1), type |-> "Slack"]
MsgNullSender == [found |-> TRUE, sender |-> None, subject |-> <<"H", "i">>,
                  body |-> None, type |-> "email"]
Messages == {MsgSubject, MsgBody, MsgNullSender}
get_message == Messages \cup {NoMessage}
\* a message whose subject is longer than the title limit of the handler
MsgLongSubject == [found |-> TRUE, sender |-> <<"a">>,
                   subject |-> Rep("s", TitleMaxLen + 1),
                   body |-> <<"y", "o">>, type |-> "email"]
\* a message without subject whose body is exactly as long as the title part
\* taken from a body (line 159: body[:100], no marker unless len(body) > 100)
MsgBodyAtLimit == [found |-> TRUE, sender |-> <<"b">>, subject |-> None,
                   body |-> Rep("x", BodyTitleLen), type |-> "email"]
\* the lookup answers drawn for the single record of SpecRecord
RecordMessages == get_message \cup {MsgLongSubject, MsgBodyAtLimit}

\* Python truthiness of message.get(key)
Truthy(v) == v # None /\ v # <<>>

\* line 153: EMAIL if message_type_str.lower() == 'email' else SLACK
MessageTypeOf(type) == IF type \in {"email", "Email", "EMAIL"} THEN "email" ELSE "slack"

\* a title whose body part always carries the marker
TitleOfAlwaysMarked(message, cls_id) ==
    IF message.found /\ Truthy(message.subject) THEN message.subject
    ELSE IF message.found /\ Truthy(message.body)
         THEN Prefix(message.body, BodyTitleLen) \o Ellipsis
    ELSE DefaultTitlePrefix \o Prefix(cls_id, ClsIdTitleLen)
\* lines 155-163
TitleOf(message, cls_id) ==
    IF message.found /\ Truthy(message.subject) THEN message.subject
    ELSE IF message.found /\ Truthy(message.body)
         THEN Prefix(message.body, BodyTitleLen)
              \o (IF Len(message.body) > BodyTitleLen THEN Ellipsis ELSE <<>>)
    ELSE DefaultTitlePrefix \o Prefix(cls_id, ClsIdTitleLen)

\* lines 167-177 / 187-197: the TaskCreate / FollowupCreate built for a record
SyncItem(cls, message) ==
    [ user_id       |-> db_user_id,
      source_msg_id |-> cls.msg_id,
      title         |-> TitleOf(message, cls.cls_id),
      status        |-> "open",
      due_at        |-> None,
      priority      |-> priority_1_5(cls.priority.v),
      message_type  |-> IF message.found THEN MessageTypeOf(message.type) ELSE "email",
      sender        |-> IF message.found THEN message.sender ELSE <<>>,
      subject       |-> IF message.found THEN message.subject ELSE None ]

\* the response of a sync call: lines 114-119 and 210-221
SyncResult(processed, t, f, errs) ==
    [endpoint |-> "sync", status |-> 200, classifications_processed |-> processed,
     tasks_created |-> t, followups_created |-> f, errors |-> errs]
\* lines 223-228
SyncFailure == [endpoint |-> "sync", status |-> 500]

\* one entry of the errors list: line 183 / 203 (create returned no id) or
\* line 206 (an exception while processing the record)
CreateFailed(what, cls_id) == [kind |-> "create_failed", what |-> what, cls_id |-> cls_id]
ErrorProcessing(cls_id) == [kind |-> "exception", what |-> "", cls_id |-> cls_id]

\* a loop body in which a failed message lookup is an error of the record
RecordOutcomeLookupRequired(cls, message, outcome) ==
    IF cls.shape # "object" THEN "raise"
    ELSE IF cls.label = JsonNull THEN "exception"
    ELSE IF Lower(cls.label) = "noise" THEN "skipped"
    ELSE IF cls.priority.t # "int" THEN "exception"
    ELSE IF ~message.found THEN "exception"
    ELSE IF Lower(cls.label) \in {"todo", "followup"}
         THEN IF ~TaskCreateValid(SyncItem(cls, message)) THEN "exception"
              ELSE IF outcome = "ok" THEN "persisted" ELSE "failed"
    ELSE "dropped"

\* what the loop body (lines 128-208) does with one record, given what the
\* message lookup and the store answer:
\*   "raise"     the except handler itself raised: the exception leaves the loop
\*   "exception" caught by the handler and appended to errors
\*   "skipped"   the noise continue
\*   "persisted" create returned an id
\*   "failed"    create returned no id, appended to errors
\*   "dropped"   neither branch of the routing taken
RecordOutcome(cls, message, outcome) ==
    IF cls.shape # "object" THEN "raise"
    ELSE IF cls.label = JsonNull THEN "exception"
    ELSE IF Lower(cls.label) = "noise" THEN "skipped"
    ELSE IF cls.priority.t # "int" THEN "exception"
    ELSE IF Lower(cls.label) \in {"todo", "followup"}
         THEN IF ~TaskCreateValid(SyncItem(cls, message)) THEN "exception"
              ELSE IF outcome = "ok" THEN "persisted" ELSE "failed"
    ELSE "dropped"

\* a loop body that looks the message up inside the two routing branches
LookupDoneAfterRouting(cls) ==
    /\ cls.shape = "object"
    /\ cls.label # JsonNull
    /\ Lower(cls.label) \in {"todo", "followup"}
    /\ cls.priority.t = "int"
\* was integrations_client.get_message awaited for this record (line 145)
LookupDone(cls) ==
    /\ cls.shape = "object"
    /\ cls.label # JsonNull
    /\ Lower(cls.label) # "noise"
    /\ cls.priority.t = "int"

\* a routing that stores the record labelled todo as a Todo
RouteTodoToTodos(label) ==
    CASE label = "todo"     -> "todos"
      [] label = "followup" -> "followups"
      [] OTHER              -> ""

\* lines 165 / 185: the table the record is routed to
RouteOf(label) ==
    CASE label = "todo"     -> "tasks"
      [] label = "followup" -> "followups"
      [] OTHER              -> ""

LogEntry(cls, message, outcome) ==
    LET res == RecordOutcome(cls, message, outcome)
        lbl == IF cls.shape = "object" THEN
                  (IF cls.label = JsonNull THEN JsonNull ELSE Lower(cls.label))
               ELSE "<nonobject>"
    IN [ label   |-> lbl,
         cls_id  |-> cls.cls_id,
         lookup  |-> IF ~LookupDone(cls) THEN "none"
                     ELSE IF message.found THEN "found" ELSE "failed",
         outcome |-> res,
         table   |-> IF res = "persisted" THEN RouteOf(lbl) ELSE "",
         id      |-> IF res = "persisted" THEN nextId[RouteOf(lbl)] ELSE 0 ]

syncVars == <<sync_pc, sync_user_id, db_user_id, classifications_len, sync_i, tasks_created,
              followups_created, errors, fetch_state, sync_log>>

\* a fetch whose failure is answered with an error status
sync_fetch_failure_raises ==
    /\ sync_pc \in {"idle", "returned"}
    /\ \E user_id \in UserIds, fetched \in {"failed", "ok"}, n \in 0..caps.batch :
          LET len == IF fetched = "ok" THEN n ELSE 0 IN
          /\ sync_user_id' = user_id
          /\ db_user_id' = ResolveOwner(user_id)
          /\ fetch_state' = fetched
          /\ classifications_len' = len
          /\ sync_i' = 0
          /\ tasks_created' = 0
          /\ followups_created' = 0
          /\ errors' = <<>>
          /\ sync_log' = <<>>
          /\ IF fetched = "failed"
             THEN /\ sync_pc' = "returned"
                  /\ response' = SyncFailure
             ELSE IF len = 0
             THEN /\ sync_pc' = "returned"
                  /\ response' = SyncResult(0, 0, 0, <<>>)
             ELSE /\ sync_pc' = "loop"
                  /\ response' = NoResponse
    /\ webhook_log' = <<>>
    /\ UNCHANGED <<tasks, todos, followups, nextId, caps, recordVars, poolVars, textVars, listVars, managerVars>>

\* lines 96-125: resolve the owner, await the fetch; get_classifications
\* returns [] on every failure (classification_client lines 46-58)
sync_classifications_fetch ==
    /\ sync_pc \in {"idle", "returned"}
    /\ \E user_id \in UserIds, fetched \in {"failed", "ok"}, n \in 0..caps.batch :
          LET len == IF fetched = "ok" THEN n ELSE 0 IN
          /\ sync_user_id' = user_id
          /\ db_user_id' = ResolveOwner(user_id)
          /\ fetch_state' = fetched
          /\ classifications_len' = len
          /\ sync_i' = 0
          /\ tasks_created' = 0
          /\ followups_created' = 0
          /\ errors' = <<>>
          /\ sync_log' = <<>>
          /\ IF len = 0
             THEN /\ sync_pc' = "returned"
                  /\ response' = SyncResult(0, 0, 0, <<>>)
             ELSE /\ sync_pc' = "loop"
                  /\ response' = NoResponse
    /\ webhook_log' = <<>>
    /\ UNCHANGED <<tasks, todos, followups, nextId, caps, recordVars, poolVars, textVars, listVars, managerVars>>

\* a loop body that puts each new error in front of the list
SyncRecordPrepending(cls, message, outcome) ==
    /\ sync_pc = "loop"
    /\ sync_i < classifications_len
    /\    LET res == RecordOutcome(cls, message, outcome)
              table == IF cls.shape = "object" /\ cls.label # JsonNull
                       THEN RouteOf(Lower(cls.label)) ELSE ""
              item == SyncItem(cls, message)
          IN
          /\ outcome = "ok" => RowCount < caps.rows
          /\ sync_i' = sync_i + 1
          /\ sync_log' = Append(sync_log, LogEntry(cls, message, outcome))
          /\ IF res = "persisted"
             THEN /\ SetTable(table, TableAfterCreate(RowsOf(table), table, item, outcome))
                  /\ nextId' = NextIdAfterCreate(table, outcome)
             ELSE UNCHANGED <<tasks, todos, followups, nextId>>
          /\ tasks_created' = IF res = "persisted" /\ Lower(cls.label) = "todo"
                              THEN tasks_created + 1 ELSE tasks_created
          /\ followups_created' = IF res = "persisted" /\ Lower(cls.label) = "followup"
                                  THEN followups_created + 1 ELSE followups_created
          /\ errors' = CASE res = "failed" ->
                               <<CreateFailed(
                                  IF Lower(cls.label) = "todo" THEN "task" ELSE "followup",
                                  cls.cls_id)>> \o errors
                         [] res = "exception" ->
                               <<ErrorProcessing(cls.cls_id)>> \o errors
                         [] OTHER -> errors
          /\ IF res = "raise"
             THEN /\ sync_pc' = "returned"
                  /\ response' = SyncFailure
             ELSE /\ sync_pc' = sync_pc
                  /\ response' = NoResponse
    /\ webhook_log' = <<>>
    /\ UNCHANGED <<sync_user_id, db_user_id, classifications_len, fetch_state, caps,
                   recordVars, poolVars, textVars, listVars, managerVars>>
\* lines 127-208: one iteration of the for loop, on the record `cls`, with
\* the answer `message` of the lookup and the answer `outcome` of the store
SyncRecord(cls, message, outcome) ==
    /\ sync_pc = "loop"
    /\ sync_i < classifications_len
    /\    LET res == RecordOutcome(cls, message, outcome)
              table == IF cls.shape = "object" /\ cls.label # JsonNull
                       THEN RouteOf(Lower(cls.label)) ELSE ""
              item == SyncItem(cls, message)
          IN
          /\ outcome = "ok" => RowCount < caps.rows
          /\ sync_i' = sync_i + 1
          /\ sync_log' = Append(sync_log, LogEntry(cls, message, outcome))
          /\ IF res = "persisted"
             THEN /\ SetTable(table, TableAfterCreate(RowsOf(table), table, item, outcome))
                  /\ nextId' = NextIdAfterCreate(table, outcome)
             ELSE UNCHANGED <<tasks, todos, followups, nextId>>
          /\ tasks_created' = IF res = "persisted" /\ Lower(cls.label) = "todo"
                              THEN tasks_created + 1 ELSE tasks_created
          /\ followups_created' = IF res = "persisted" /\ Lower(cls.label) = "followup"
                                  THEN followups_created + 1 ELSE followups_created
          /\ errors' = CASE res = "failed" ->
                               Append(errors, CreateFailed(
                                  IF Lower(cls.label) = "todo" THEN "task" ELSE "followup",
                                  cls.cls_id))
                         [] res = "exception" ->
                               Append(errors, ErrorProcessing(cls.cls_id))
                         [] OTHER -> errors
          /\ IF res = "raise"
             THEN /\ sync_pc' = "returned"
                  /\ response' = SyncFailure
             ELSE /\ sync_pc' = sync_pc
                  /\ response' = NoResponse
    /\ webhook_log' = <<>>
    /\ UNCHANGED <<sync_user_id, db_user_id, classifications_len, fetch_state, caps,
                   recordVars, poolVars, textVars, listVars, managerVars>>

sync_classifications_record ==
    \E cls \in ClassificationRecords, message \in get_message,
       outcome \in StoreOutcomes :
       SyncRecord(cls, message, outcome)

\* a second call over an unchanged classification set: the set holds the one
\* record cls_in, its lookup answers message_in each time, the store is
\* available, and the caller is the one of the call before
resync_fetch ==
    /\ sync_classifications_fetch
    /\ fetch_state' = "ok"
    /\ classifications_len' = 1
    /\ sync_pc = "returned" => sync_user_id' = sync_user_id
resync_record == SyncRecord(cls_in, message_in, "ok")

\* lines 210-221: the loop is over, build and return the aggregate
sync_classifications_return ==
    /\ sync_pc = "loop"
    /\ sync_i = classifications_len
    /\ sync_pc' = "returned"
    /\ response' = SyncResult(classifications_len, tasks_created,
                              followups_created, errors)
    /\ webhook_log' = <<>>
    /\ UNCHANGED <<tasks, todos, followups, nextId, caps, sync_user_id, db_user_id,
                   classifications_len, sync_i, tasks_created,
                   followups_created, errors, fetch_state, sync_log, recordVars, poolVars, textVars, listVars, managerVars>>

\* ---------------------------------------- resources/classifications: webhook
\* raw messages a webhook batch can hold (each a JSON object): a todo, a
\* followup, a noise message, one with a label outside Classification and one
\* with a priority outside Field(ge=1, le=5)
Raw(id, type, subject, classification, task, priority) ==
    [id |-> id, type |-> type, subject |-> subject, sender |-> <<"z">>,
     classification |-> classification, task |-> task, priority |-> priority]
TextCallBob == <<"t","o","d","o",":"," ","c","a","l","l"," ","b","o","b"," ","a","s","a","p">>
TextSend == <<"s","e","n","d"," ","i","t">>
WebhookMessages ==
    { Raw(<<"w","1">>, "email", None, "todo", TextCallBob, 3),
      Raw(<<"w","2">>, "slack", <<"H","i">>, "followup", TextSend, 5),
      Raw(<<"w","3">>, "email", None, "noise", TextSend, 1),
      Raw(<<"w","4">>, "email", None, "task", TextSend, 2),
      Raw(<<"w","5">>, "email", None, "todo", TextSend, 7) }

\* the user_id query parameter of the webhook and of direct creates
WebhookUserId == 7

\* models/task lines 23-31: IncomingMessage(**msg_data) validates
IncomingMessageValid(msg_data) ==
    /\ msg_data.id # None
    /\ msg_data.type \in MessageType
    /\ msg_data.sender # None
    /\ msg_data.classification \in Classification
    /\ msg_data.task # None
    /\ msg_data.priority >= PriorityMin
    /\ msg_data.priority <= PriorityMax

\* classification_handler lines 58-100: the list the message is appended to
HandlerRoute(classification) ==
    IF classification = "todo" THEN "todos"
    ELSE IF classification = "followup" THEN "followups"
    ELSE "tasks"

\* lines 55-56 for each message of WebhookMessages (computed once)
clean_title == [m \in WebhookMessages |-> _clean_task_title(m.task, m.classification)]
due_at == [m \in WebhookMessages |-> _extract_due_date(m.task)]

\* an item whose priority went through the mapping of the pull-sync loop
HandlerItemMappingPriority(message, user_id) ==
    [ user_id       |-> user_id,
      source_msg_id |-> message.id,
      title         |-> clean_title[message],
      status        |-> "open",
      due_at        |-> due_at[message],
      priority      |-> Min(Max(message.priority \div 2, PriorityMin), PriorityMax),
      message_type  |-> message.type,
      sender        |-> message.sender,
      subject       |-> message.subject ]
\* lines 60-70 / 74-84 / 89-99: the item built for a message
HandlerItem(message, user_id) ==
    [ user_id       |-> user_id,
      source_msg_id |-> message.id,
      title         |-> clean_title[message],
      status        |-> "open",
      due_at        |-> due_at[message],
      priority      |-> message.priority,
      message_type  |-> message.type,
      sender        |-> message.sender,
      subject       |-> message.subject ]

\* a handler without the noise skip: a noise message falls to the default list
RECURSIVE HandlerItemsKeepingNoise(_, _, _)
HandlerItemsKeepingNoise(messages, user_id, k) ==
    IF k > Len(messages) THEN <<>>
    ELSE LET msg_data == messages[k] IN
         IF ~IncomingMessageValid(msg_data)
         THEN HandlerItemsKeepingNoise(messages, user_id, k + 1)
         ELSE << [ index |-> k,
                   table |-> HandlerRoute(msg_data.classification),
                   item  |-> HandlerItem(msg_data, user_id) ] >>
              \o HandlerItemsKeepingNoise(messages, user_id, k + 1)

\* a handler that gives up the batch at the first invalid message
RECURSIVE HandlerItemsStoppingAtInvalid(_, _, _)
HandlerItemsStoppingAtInvalid(messages, user_id, k) ==
    IF k > Len(messages) THEN <<>>
    ELSE LET msg_data == messages[k] IN
         IF ~IncomingMessageValid(msg_data) THEN <<>>
         ELSE IF msg_data.classification = "noise"
              THEN HandlerItemsStoppingAtInvalid(messages, user_id, k + 1)
         ELSE << [ index |-> k,
                   table |-> HandlerRoute(msg_data.classification),
                   item  |-> HandlerItem(msg_data, user_id) ] >>
              \o HandlerItemsStoppingAtInvalid(messages, user_id, k + 1)

\* ClassificationHandler.process_classifications, lines 43-102: the items
\* built, in message order, each with the list it was appended to and the
\* position of its message; an invalid message and a noise message add none
RECURSIVE HandlerItems(_, _, _)
HandlerItems(messages, user_id, k) ==
    IF k > Len(messages) THEN <<>>
    ELSE LET msg_data == messages[k] IN
         IF ~IncomingMessageValid(msg_data) THEN HandlerItems(messages, user_id, k + 1)
         ELSE IF msg_data.classification = "noise"
              THEN HandlerItems(messages, user_id, k + 1)
         ELSE << [ index |-> k,
                   table |-> HandlerRoute(msg_data.classification),
                   item  |-> HandlerItem(msg_data, user_id) ] >>
              \o HandlerItems(messages, user_id, k + 1)

InTasks(e) == e.table = "tasks"
InTodos(e) == e.table = "todos"
InFollowups(e) == e.table = "followups"

\* resources/classifications lines 39-61: the endpoint creates the tasks,
\* then the todos, then the followups
CreationOrder(processed) ==
    SelectSeq(processed, InTasks) \o SelectSeq(processed, InTodos)
        \o SelectSeq(processed, InFollowups)

\* what the store answers to one create and to the read-back after it
WebhookOutcomes ==
    {<<"ok", "ok">>, <<"ok", "error">>, <<"unavailable", "none">>, <<"error", "none">>}

\* the id the j-th create of the call gets: the table's counter plus the
\* inserts the call already made into that table
WebhookId(order, oc, j) ==
    nextId[order[j].table]
      + Cardinality({i \in 1..(j - 1) :
                        order[i].table = order[j].table /\ oc[i][1] = "ok"})

\* rows the call inserts into a table; oc[j] = <<create outcome, read-back outcome>>
WebhookInserted(order, oc, table) ==
    { InsertedRow(WebhookId(order, oc, j), order[j].item) :
        j \in {i \in 1..Len(order) : order[i].table = table /\ oc[i][1] = "ok"} }

\* variant: the item is appended as soon as the create returned an id
WebhookReturnedOnInsert(order, oc, table) ==
    {j \in 1..Len(order) : order[j].table = table /\ oc[j][1] = "ok"}

\* lines 42-45: the item is appended when the create returned an id and the
\* read-back returned the row
WebhookReturned(order, oc, table) ==
    {j \in 1..Len(order) :
        order[j].table = table /\ oc[j][1] = "ok" /\ oc[j][2] = "ok"}

\* lines 63-71
WebhookResult(order, oc) ==
    [ endpoint |-> "webhook", status |-> 200,
      tasks_count |-> Cardinality(WebhookReturned(order, oc, "tasks")),
      todos_count |-> Cardinality(WebhookReturned(order, oc, "todos")),
      followups_count |-> Cardinality(WebhookReturned(order, oc, "followups")) ]

\* line 27
WebhookNoMessages == [endpoint |-> "webhook", status |-> 400]

\* history entry for message k of the batch
WebhookLogEntry(messages, order, oc, k) ==
    LET js == {j \in 1..Len(order) : order[j].index = k} IN
    IF js = {}
    THEN [ classification |-> messages[k].classification,
           valid |-> IncomingMessageValid(messages[k]),
           create |-> "none", table |-> "", id |-> 0, returned |-> FALSE ]
    ELSE LET j == CHOOSE j \in js : TRUE IN
         [ classification |-> messages[k].classification,
           valid |-> TRUE,
           create |-> oc[j][1],
           table |-> order[j].table,
           id |-> IF oc[j][1] = "ok" THEN WebhookId(order, oc, j) ELSE 0,
           returned |-> oc[j][1] = "ok" /\ oc[j][2] = "ok" ]

\* all sequences over S of length 0..n
SeqsUpTo(S, n) == UNION {[1..k -> S] : k \in 0..n}

\* resources/classifications lines 17-77: the whole webhook call (it never
\* awaits, so no other request runs inside it)
process_classifications ==
    /\ \E messages \in SeqsUpTo(WebhookMessages, caps.messages) :
          IF messages = <<>>
          THEN /\ response' = WebhookNoMessages
               /\ webhook_log' = <<>>
               /\ UNCHANGED <<tasks, todos, followups, nextId>>
          ELSE LET order == CreationOrder(HandlerItems(messages, WebhookUserId, 1)) IN
               \E oc \in [1..Len(order) -> WebhookOutcomes] :
                  /\ RowCount + Cardinality({j \in 1..Len(order) : oc[j][1] = "ok"})
                        <= caps.rows
                  /\ tasks' = tasks \cup WebhookInserted(order, oc, "tasks")
                  /\ todos' = todos \cup WebhookInserted(order, oc, "todos")
                  /\ followups' = followups \cup WebhookInserted(order, oc, "followups")
                  /\ nextId' = [t \in DOMAIN nextId |->
                                  nextId[t] + Cardinality(WebhookInserted(order, oc, t))]
                  /\ response' = WebhookResult(order, oc)
                  /\ webhook_log' = [k \in 1..Len(messages) |->
                                        WebhookLogEntry(messages, order, oc, k)]
    /\ UNCHANGED <<caps, syncVars, recordVars, poolVars, textVars, listVars, managerVars>>

\* ------------------------------------- resources/tasks, todo, followup: CRUD
\* request bodies of the create entry points: priorities inside and outside
\* Field(ge=1, le=5)
DirectItem(priority) ==
    [ user_id |-> WebhookUserId, source_msg_id |-> <<"d">>, title |-> <<"T">>,
      status |-> "open", due_at |-> None, priority |-> priority,
      message_type |-> "email", sender |-> <<"z">>, subject |-> None ]
CreateBodies == {DirectItem(0), DirectItem(3), DirectItem(6)}

\* resources/tasks.py lines 14-28 (todo.py 12-26, followup.py 12-26)
CreateEndpoint(table) ==
    \E body \in CreateBodies, outcome \in StoreOutcomes, readback \in {"ok", "error"} :
       /\ outcome = "ok" => RowCount < caps.rows
       /\ IF ~TaskCreateValid(body)
          THEN /\ response' = [endpoint |-> "create", status |-> 422]
               /\ UNCHANGED <<tasks, todos, followups, nextId>>
          ELSE /\ SetTable(table, TableAfterCreate(RowsOf(table), table, body, outcome))
               /\ nextId' = NextIdAfterCreate(table, outcome)
               /\ response' =
                    IF CreatedId(table, outcome) = 0 \/ readback # "ok"
                    THEN [endpoint |-> "create", status |-> FailureStatus("create_task")]
                    ELSE [endpoint |-> "create", status |-> 201,
                          id |-> CreatedId(table, outcome)]
       /\ webhook_log' = <<>>
       /\ UNCHANGED <<caps, syncVars, recordVars, poolVars, textVars, listVars, managerVars>>

create_task == CreateEndpoint("tasks")
create_todo == CreateEndpoint("todos")
create_followup == CreateEndpoint("followups")

\* models/task lines 63-68: a TaskUpdate; `fields` are the fields provided
Update(fields, status, priority) ==
    [fields |-> fields, title |-> <<"N">>, status |-> status,
     due_at |-> DueInDays(1), priority |-> priority]
UpdateBodies ==
    { Update({}, "open", 1),
      Update({"priority"}, "open", 5),
      Update({"priority"}, "open", 6),
      Update({"status"}, "done", 1) }

\* Field(None, ge=1, le=5) of TaskUpdate / TodoUpdate / FollowupUpdate
TaskUpdateValid(updates) ==
    "priority" \in updates.fields =>
        updates.priority >= PriorityMin /\ updates.priority <= PriorityMax

\* an UPDATE that writes the four fields of the body, provided or not
UpdatedRowWritingAllFields(row, updates) ==
    [row EXCEPT
       !.title    = updates.title,
       !.status   = updates.status,
       !.due_at   = updates.due_at,
       !.priority = updates.priority,
       !.updated_at = clock]

\* database.py lines 303-332: the row after the UPDATE statement
UpdatedRow(row, updates) ==
    [row EXCEPT
       !.title    = IF "title" \in updates.fields THEN updates.title ELSE @,
       !.status   = IF "status" \in updates.fields THEN updates.status ELSE @,
       !.due_at   = IF "due_at" \in updates.fields THEN updates.due_at ELSE @,
       !.priority = IF "priority" \in updates.fields THEN updates.priority ELSE @,
       !.updated_at = clock]

\* database.py lines 294-347: update_task / update_todo / update_followup
UpdateSucceeds(rows, id, updates, outcome) ==
    /\ outcome = "ok"
    /\ updates.fields # {}
    /\ \E r \in rows : r.id = id

TableAfterUpdate(rows, id, updates, outcome) ==
    IF UpdateSucceeds(rows, id, updates, outcome)
    THEN {IF r.id = id THEN UpdatedRow(r, updates) ELSE r : r \in rows}
    ELSE rows

\* ids an update request can name
RequestIds == 1..2

\* resources/tasks.py lines 98-107 (todo.py 90-99, followup.py 96-105)
UpdateEndpoint(table) ==
    \E id \in RequestIds, updates \in UpdateBodies, outcome \in StoreOutcomes :
       /\ IF ~TaskUpdateValid(updates)
          THEN /\ response' = [endpoint |-> "update", status |-> 422]
               /\ UNCHANGED <<tasks, todos, followups>>
          ELSE /\ SetTable(table, TableAfterUpdate(RowsOf(table), id, updates, outcome))
               /\ response' =
                    IF UpdateSucceeds(RowsOf(table), id, updates, outcome)
                    THEN [endpoint |-> "update", status |-> 200]
                    ELSE [endpoint |-> "update", status |-> FailureStatus("update_task")]
       /\ webhook_log' = <<>>
       /\ UNCHANGED <<nextId, caps, syncVars, recordVars, poolVars, textVars, listVars, managerVars>>

update_task == UpdateEndpoint("tasks")
update_todo == UpdateEndpoint("todos")
update_followup == UpdateEndpoint("followups")

\* ------------------------- services/database: the pool, one call at a time
\* one attempt more than the constructor sets
four_attempts == 3 + 1

\* DatabaseManager.__init__ line 25
max_retries == 3

\* what a repository method returns when it has nothing to give:
\* create None (modelled as id 0), get None, list ([], 0), update and
\* delete False
Absent == [found |-> FALSE]
Found(row) == [found |-> TRUE, row |-> row]
ListResult(items, total) == [items |-> items, total |-> total]
NoEffect(kind) ==
    CASE kind = "create_task" -> 0
      [] kind = "get_task"    -> Absent
      [] kind = "get_tasks"   -> ListResult(<<>>, 0)
      [] kind = "update_task" -> FALSE
      [] kind = "delete_task" -> FALSE

\* lines 134-135, 197-198, 233-234, 297-298, 352-353: what each method
\* returns when _get_connection returned None
UnavailableValue(kind) == NoEffect(kind)

\* get_tasks lines 236-246: the WHERE clause (`if status`, `if min_priority`:
\* an absent status is "", an absent or zero min_priority is 0)
Matching(rows, args) ==
    { r \in rows :
        /\ r.user_id = args.user_id
        /\ args.status # "" => r.status = args.status
        /\ args.min_priority # 0 => r.priority >= args.min_priority }

\* the position of a due_at in ORDER BY due_at ASC: the store sorts NULL
\* before every value in ascending order; values by date
DueKey(due) ==
    IF due = None THEN 0 - 1000
    ELSE IF due[1] = "days" THEN due[2]
    ELSE ((due[2] - Now.year) * 12 + (due[3] - Now.month)) * 31 + (due[4] - Now.day)

\* line 273: ORDER BY priority DESC, due_at ASC; rows equal on both come in
\* an order the store picks (`tie`: by id ascending or descending)
Before(a, b, tie) ==
    \/ a.priority > b.priority
    \/ a.priority = b.priority /\ DueKey(a.due_at) < DueKey(b.due_at)
    \/ /\ a.priority = b.priority
       /\ DueKey(a.due_at) = DueKey(b.due_at)
       /\ IF tie = "asc" THEN a.id < b.id ELSE a.id > b.id

Ordered(rows, tie) ==
    [ i \in 1..Cardinality(rows) |->
        CHOOSE r \in rows : Cardinality({q \in rows : Before(q, r, tie)}) = i - 1 ]

\* a page that always starts at the first row
PageIgnoringOffset(ordered, limit, offset) ==
    SubSeq(ordered, 1, Min(limit, Len(ordered)))

\* line 274: LIMIT %s OFFSET %s
Page(ordered, limit, offset) ==
    SubSeq(ordered, offset + 1, Min(offset + limit, Len(ordered)))

\* get_tasks lines 248-286 when both statements run
get_tasks(rows, args, tie) ==
    ListResult(Page(Ordered(Matching(rows, args), tie), args.limit, args.offset),
               Cardinality(Matching(rows, args)))

\* the repository calls explored: one create body, the valid update bodies,
\* the ids a request can name, one list request
ListArgs(user_id, status, min_priority, limit, offset) ==
    [user_id |-> user_id, status |-> status, min_priority |-> min_priority,
     limit |-> limit, offset |-> offset]
NoCall == [kind |-> "", id |-> 0, updates |-> Update({}, "open", 1),
           item |-> DirectItem(3),
           conn |-> "none", value |-> 0, raised |-> FALSE]
Call(kind, id, updates) == [NoCall EXCEPT !.kind = kind, !.id = id, !.updates = updates]
\* the partial updates drawn for update_task: no field, two of the four
\* fields, the other two
PoolUpdates ==
    { Update({}, "open", 1),
      Update({"status", "priority"}, "done", 5),
      Update({"title", "due_at"}, "open", 1) }
\* a TaskCreate body that gives every field, status, due_at and subject
\* included (DirectItem leaves these three to their defaults)
FullItem ==
    [ DirectItem(5) EXCEPT !.source_msg_id = <<"m">>, !.title = <<"U">>,
                           !.status = "done", !.due_at = DueInDays(2),
                           !.message_type = "slack", !.sender = <<"b">>,
                           !.subject = <<"H", "i">> ]
RepositoryCalls ==
    {Call("create_task", 0, NoCall.updates), Call("get_tasks", 0, NoCall.updates)}
      \cup {Call(k, id, NoCall.updates) : k \in {"get_task", "delete_task"}, id \in RequestIds}
      \cup {Call("update_task", id, u) :
               id \in RequestIds, u \in {b \in PoolUpdates : TaskUpdateValid(b)}}
NoResult == [kind |-> "", value |-> 0, raised |-> FALSE, acquired |-> FALSE]
Result(call, acquired) ==
    [kind |-> call.kind, value |-> call.value, raised |-> call.raised,
     acquired |-> acquired]

\* a method that goes on without testing the connection for None and raises
ReturnUnavailableRaising ==
    /\ db_pc' = "idle"
    /\ db_result' = Result([db_call EXCEPT !.value = UnavailableValue(db_call.kind),
                                           !.raised = TRUE], FALSE)

\* the method returns without a connection: its no-effect value
ReturnUnavailable ==
    /\ db_pc' = "idle"
    /\ db_result' = Result([db_call EXCEPT !.value = UnavailableValue(db_call.kind)], FALSE)

\* lines 63-80, one creation attempt of _initialize_pool: called by __init__
\* (line 27), by _get_connection when the pool is None (line 85) and after a
\* failed get_connection (line 101); `attempts` is retry_count, the attempts
\* the initialization in progress has made (0 when none is in progress)
_initialize_pool ==
    /\ db_pc \in {"construct", "init", "reinit"}
    /\ \E created \in BOOLEAN :
          /\ attempts' = IF ~created /\ attempts < max_retries - 1
                         THEN attempts + 1 ELSE 0
          /\ acquire_tries' =
                IF db_pc = "construct" \/ (~created /\ attempts >= max_retries - 1)
                THEN 0 ELSE acquire_tries + 1
          /\ IF created
             THEN /\ pool' = "present"
                  /\ free' = caps.pool
                  /\ degraded' = degraded
                  /\ db_pc' = CASE db_pc = "construct" -> "idle"
                                [] db_pc = "init"      -> "get"
                                [] db_pc = "reinit"    -> "get_again"
                  /\ db_result' = db_result
             ELSE /\ pool' = "absent"
                  /\ free' = 0
                  /\ IF attempts < max_retries - 1
                     THEN /\ db_pc' = db_pc
                          /\ degraded' = degraded
                          /\ db_result' = db_result
                     ELSE /\ degraded' = TRUE
                          /\ IF db_pc = "construct"
                             THEN db_pc' = "idle" /\ db_result' = db_result
                             ELSE ReturnUnavailable
    /\ UNCHANGED <<tasks, todos, followups, nextId, caps, response, webhook_log,
                   syncVars, recordVars, textVars, listVars, managerVars, db_call, clock,
                   checked_out>>

\* a repository method is entered: lines 82-88 of _get_connection
CallOf(calls) ==
    /\ db_pc = "idle"
    /\ \E call \in calls :
          /\ db_call' = call
          /\ IF pool = "absent"
             THEN db_pc' = "init" /\ attempts' = 0
             ELSE db_pc' = "get" /\ attempts' = attempts
    /\ db_result' = NoResult
    /\ acquire_tries' = 0
    /\ UNCHANGED <<tasks, todos, followups, nextId, caps, response, webhook_log,
                   syncVars, recordVars, textVars, listVars, managerVars, pool, free, degraded,
                   clock, checked_out>>
repository_call == CallOf(RepositoryCalls)
\* create_task called with the body that gives every field
create_task_with_every_field ==
    CallOf({[Call("create_task", 0, NoCall.updates) EXCEPT !.item = FullItem]})

\* the count of connections out of the manager's pools after n more were taken
TakenOut(n) == Min(checked_out + n, caps.held)

\* lines 90-101: get_connection gives a connection that is connected, one
\* that is not (then a second one is taken and returned as it is, the first
\* is not given back), or raises Error (always when the queue is empty): the
\* pool is dropped and initialized again
_get_connection ==
    /\ db_pc = "get"
    /\ \E got \in {"connected", "stale", "error"}, second \in {"connected", "stale"} :
          /\ free = 0 => got = "error"
          /\ got # "stale" => second = "connected"
          /\ IF got = "error" \/ (got = "stale" /\ free = 1)
             THEN /\ pool' = "absent"
                  /\ free' = 0
                  /\ attempts' = 0
                  /\ db_pc' = "reinit"
                  /\ db_call' = db_call
                  /\ checked_out' = TakenOut(IF got = "stale" THEN 1 ELSE 0)
                  /\ acquire_tries' = acquire_tries
             ELSE /\ pool' = pool
                  /\ free' = IF got = "stale" THEN free - 2 ELSE free - 1
                  /\ checked_out' = TakenOut(IF got = "stale" THEN 2 ELSE 1)
                  /\ acquire_tries' = 0
                  /\ attempts' = attempts
                  /\ db_pc' = "run"
                  /\ db_call' = [db_call EXCEPT !.conn =
                                    IF got = "stale" THEN second ELSE "connected"]
    /\ UNCHANGED <<tasks, todos, followups, nextId, caps, response, webhook_log,
                   syncVars, recordVars, textVars, listVars, managerVars, degraded, db_result,
                   clock>>

\* an acquire that answers every failed get_connection by discarding the
\* pool and initializing it again
_get_connection_again_retrying ==
    /\ db_pc = "get_again"
    /\ \E got \in {"connected", "stale", "error"} :
          IF got = "error"
          THEN /\ pool' = "absent"
               /\ free' = 0
               /\ db_pc' = "reinit"
               /\ UNCHANGED <<db_call, checked_out, db_result, acquire_tries>>
          ELSE /\ pool' = pool
               /\ free' = free - 1
               /\ checked_out' = TakenOut(1)
               /\ db_pc' = "run"
               /\ db_call' = [db_call EXCEPT !.conn = got]
               /\ db_result' = db_result
               /\ acquire_tries' = 0
    /\ UNCHANGED <<tasks, todos, followups, nextId, caps, response, webhook_log,
                   syncVars, recordVars, textVars, listVars, managerVars, attempts,
                   degraded, clock>>
\* lines 102-107: after the pool was initialized again, one more
\* get_connection; Error gives None
_get_connection_again ==
    /\ db_pc = "get_again"
    /\ \E got \in {"connected", "stale", "error"} :
          IF got = "error"
          THEN /\ ReturnUnavailable
               /\ UNCHANGED <<free, db_call, checked_out>>
          ELSE /\ free' = free - 1
               /\ checked_out' = TakenOut(1)
               /\ db_pc' = "run"
               /\ db_call' = [db_call EXCEPT !.conn = got]
               /\ db_result' = db_result
    /\ acquire_tries' = 0
    /\ UNCHANGED <<tasks, todos, followups, nextId, caps, response, webhook_log,
                   syncVars, recordVars, textVars, listVars, managerVars, pool, attempts,
                   degraded, clock>>

\* the arguments of the one list request explored
PoolListArgs == ListArgs(WebhookUserId, "", 0, 10, 0)

\* the value a method returns when its statements run and commit
ValueWhenOk(call) ==
    CASE call.kind = "create_task" -> CreatedId("tasks", "ok")
      [] call.kind = "get_task" ->
            IF \E r \in tasks : r.id = call.id
            THEN Found(CHOOSE r \in tasks : r.id = call.id) ELSE Absent
      [] call.kind = "get_tasks" -> get_tasks(tasks, PoolListArgs, "asc")
      [] call.kind = "update_task" -> UpdateSucceeds(tasks, call.id, call.updates, "ok")
      [] call.kind = "delete_task" -> \E r \in tasks : r.id = call.id

\* the tasks table after the statements of a method ran and committed
TasksWhenOk(call) ==
    CASE call.kind = "create_task" ->
            TableAfterCreate(tasks, "tasks", call.item, "ok")
      [] call.kind = "update_task" ->
            TableAfterUpdate(tasks, call.id, call.updates, "ok")
      [] call.kind = "delete_task" -> {r \in tasks : r.id # call.id}
      [] OTHER -> tasks

Mutating == {"create_task", "update_task", "delete_task"}

\* the try blocks of create_task (178-188), get_task (207-218), get_tasks
\* (255-289), update_task (334-344) and delete_task (357-367) with a
\* connection in hand.  `outcome`: the statements run and commit ("ok"); a
\* statement raises Error on a live connection ("error": the handler rolls
\* back; in get_tasks "error" is in the count statement, "page_error" in the
\* page statement); a statement raises Error because the connection is gone
\* ("lost": rollback on it either returns or raises out of the handler).
\* update_task with no field returns False before its try (lines 319-322).
run_statements ==
    /\ db_pc = "run"
    /\ \E outcome \in {"ok", "error", "page_error", "lost"}, rollback \in {"returns", "raises"} :
          LET noFields == db_call.kind = "update_task" /\ db_call.updates.fields = {}
              kind == db_call.kind
          IN
          /\ db_call.conn = "stale" /\ ~noFields => outcome = "lost"
          /\ outcome = "page_error" => kind = "get_tasks"
          /\ (outcome = "lost" /\ kind \in Mutating /\ ~noFields) \/ rollback = "returns"
          /\ noFields => outcome = "ok"
          /\ (outcome = "ok" /\ kind = "create_task") =>
                (RowCount < caps.rows /\ nextId["tasks"] <= caps.rows)
          /\ IF noFields
             THEN /\ db_call' = [db_call EXCEPT !.value = FALSE]
                  /\ UNCHANGED <<tasks, nextId>>
             ELSE IF outcome = "ok"
             THEN /\ db_call' = [db_call EXCEPT !.value = ValueWhenOk(db_call)]
                  /\ tasks' = TasksWhenOk(db_call)
                  /\ nextId' = IF kind = "create_task"
                               THEN NextIdAfterCreate("tasks", "ok") ELSE nextId
             ELSE /\ db_call' =
                       [db_call EXCEPT
                          !.value = IF outcome = "page_error"
                                    THEN ListResult(<<>>, Cardinality(Matching(tasks, PoolListArgs)))
                                    ELSE NoEffect(kind),
                          !.raised = rollback = "raises",
                          !.conn = IF outcome = "lost" THEN "stale" ELSE @]
                  /\ UNCHANGED <<tasks, nextId>>
          /\ db_pc' = "finally"
    /\ UNCHANGED <<todos, followups, caps, response, webhook_log, syncVars,
                   recordVars, textVars, listVars, managerVars, pool, free, attempts, degraded,
                   db_result, clock, checked_out, acquire_tries>>

\* the finally blocks (lines 189-191, 219-221, 290-292, 345-347, 368-370):
\* close(), which gives the connection back to the pool, is called only
\* when connection.is_connected()
release_connection ==
    /\ db_pc = "finally"
    /\ free' = IF db_call.conn = "connected" THEN free + 1 ELSE free
    /\ checked_out' = IF db_call.conn = "connected"
                         /\ 0 < checked_out /\ checked_out < caps.held
                      THEN checked_out - 1 ELSE checked_out
    /\ db_result' = Result(db_call, TRUE)
    /\ db_pc' = "idle"
    /\ UNCHANGED <<tasks, todos, followups, nextId, caps, response, webhook_log,
                   syncVars, recordVars, textVars, listVars, managerVars, pool, attempts,
                   degraded, db_call, clock, acquire_tries>>

\* time passes between two repository calls
tick ==
    /\ db_pc = "idle"
    /\ clock < caps.clock
    /\ clock' = clock + 1
    /\ UNCHANGED <<tasks, todos, followups, nextId, caps, response, webhook_log,
                   syncVars, recordVars, textVars, listVars, managerVars, pool, free, attempts,
                   degraded, db_pc, db_call, db_result, checked_out,
                   acquire_tries>>

\* ------------------------------------- the DatabaseManager objects
\* resources/tasks line 9, todo line 8, followup line 8, classifications
\* line 10: each module makes its own db = DatabaseManager()
Instances == {"tasks", "todo", "followup", "classifications"}
NoManager == [made |-> FALSE, own |-> FALSE, pool |-> 0]

\* self._pool read through an object: the object's own attribute when it has
\* one, else the class attribute
_pool(self) == IF managers[self].own THEN managers[self].pool ELSE class_pool

\* the pool objects that exist: the values of the class attribute and of the
\* objects' own attributes
Pools == ({managers[self].pool : self \in {i \in Instances : managers[i].own}}
            \cup {class_pool}) \ {0}

\* database.py lines 24-27 and 63-80: the constructor runs _initialize_pool.
\* When self._pool is None it makes a pool (created) or gives up after its
\* attempts; both outcomes end in an assignment to self._pool (line 68, line
\* 80), which sets the attribute of the object, not DatabaseManager._pool.
__init__ ==
    /\ \E self \in Instances, created \in BOOLEAN :
          /\ ~managers[self].made
          /\ managers' =
                [managers EXCEPT ![self] =
                    IF _pool(self) = 0
                    THEN [made |-> TRUE, own |-> TRUE,
                          pool |-> IF created THEN Cardinality(Pools) + 1 ELSE 0]
                    ELSE [made |-> TRUE, own |-> FALSE, pool |-> 0]]
    /\ UNCHANGED <<tasks, todos, followups, nextId, caps, response, webhook_log,
                   syncVars, recordVars, poolVars, textVars, listVars, class_pool>>

\* ------------------------------------- the text heuristics on one message
PrefixTexts ==
    { <<>>,
      <<"t","o","d","o",":"," ">>,
      <<"T","a","s","k",":"," ">>,
      <<"r","e","p","l","y"," ","t","o"," ">> }
BodyTexts ==
    { <<>>,
      <<"c","a","l","l"," ","b","o","b">>,
      <<"P","l","e","a","s","e"," ","r","e","p","l","y"," ","A","S","A","P">>,
      <<"f","i","n","i","s","h"," ","t","h","i","s"," ","w","e","e","k">>,
      <<"e","o","w",","," ","n","o","t"," ","t","o","d","a","y">>,
      <<"o","n"," ","1","2","/","2","5">>,
      Rep("x", TitleMaxLen + 1) }
\* the task texts drawn: up to two prefixes in front of a body
TextInputs ==
    { [task_text |-> p1 \o p2 \o b, classification |-> c] :
        p1 \in PrefixTexts, p2 \in PrefixTexts, b \in BodyTexts, c \in Classification }

NoTextOut == [stage |-> "input"]

\* classification_handler lines 55-56 on the drawn text, and the title
\* cleaned once more with the same classification
clean_and_extract ==
    /\ text_out = NoTextOut
    /\ text_out' =
         LET once == _clean_task_title(text_in.task_text, text_in.classification) IN
         [ stage |-> "done",
           clean_title |-> once,
           cleaned_again |-> _clean_task_title(once, text_in.classification),
           due_at |-> _extract_due_date(text_in.task_text) ]
    /\ UNCHANGED <<tasks, todos, followups, nextId, caps, response, webhook_log,
                   syncVars, recordVars, poolVars, text_in, listVars, managerVars>>

\* ------------------------------------------------ one list call on a table
\* the stored table the list call reads: n rows of one owner, inserted
\* through create_task, with the five priorities, both statuses and due
\* dates present and absent, and one row of another owner
ListItem(i, user_id) ==
    [ DirectItem((i % PriorityMax) + 1) EXCEPT
        !.user_id = user_id,
        !.status = IF i % 4 = 0 THEN "done" ELSE "open",
        !.due_at = IF i % 3 = 0 THEN None ELSE DueInDays(i % 4) ]
OtherUserId == 8
ListRows(n) ==
    { InsertedRow(i, ListItem(i, WebhookUserId)) : i \in 1..n }
      \cup { InsertedRow(n + 1, ListItem(n + 1, OtherUserId)) }

\* the list requests drawn, and how the store orders rows equal on the
\* ORDER BY columns
ListRequests ==
    { [args |-> ListArgs(WebhookUserId, st, mp, l, o), tie |-> t] :
        st \in {"", "open"}, mp \in {0, 3}, l \in {1, 10}, o \in {0, 10, 20},
        t \in {"asc", "desc"} }

NothingListed == [stage |-> "input"]

\* get_tasks lines 223-286 on the stored table, both statements succeeding
list_tasks ==
    /\ list_out = NothingListed
    /\ list_out' =
         LET res == get_tasks(tasks, list_in.args, list_in.tie) IN
         [stage |-> "returned", items |-> res.items, total |-> res.total]
    /\ UNCHANGED <<tasks, todos, followups, nextId, caps, response, webhook_log,
                   syncVars, recordVars, poolVars, textVars, list_in, managerVars>>

\* database.py lines 223-230: the parameters of get_tasks after self (those
\* of get_todos, lines 464-471, and get_followups, 705-712, are the same),
\* and the ones without a default
get_tasks_signature ==
    [ parameters |-> {"user_id", "status", "min_priority", "limit", "offset"},
      required   |-> {"user_id"} ]
\* resources/tasks.py line 94 (todo.py 86, followup.py 92): the keywords of
\* the call db.get_tasks(filters=filters, limit=limit, offset=offset)
ListCallKeywords == {"filters", "limit", "offset"}
\* a Python call binds when every keyword names a parameter and every
\* parameter without a default is given; otherwise it raises TypeError
Binds(keywords, signature) ==
    /\ keywords \subseteq signature.parameters
    /\ signature.required \subseteq keywords

\* resources/tasks.py lines 42-95: the list entry point; a TypeError is
\* handled by nothing and the framework answers 500
list_tasks_endpoint ==
    /\ list_out = NothingListed
    /\ list_out' =
         IF Binds(ListCallKeywords, get_tasks_signature)
         THEN [stage |-> "answered", status |-> 200,
               items |-> get_tasks(tasks, list_in.args, list_in.tie).items]
         ELSE [stage |-> "answered", status |-> 500, items |-> <<>>]
    /\ UNCHANGED <<tasks, todos, followups, nextId, caps, response, webhook_log,
                   syncVars, recordVars, poolVars, textVars, list_in, managerVars>>

\* ----------------------------------- the loop body on one record, no store
\* SpecRecord draws one classification record and one lookup answer and
\* applies lines 129-177 and the insert of database.py lines 166-176 to it
RecordInputs ==
    { Rec(ClsLong, l, IntPriority(p)) :
        l \in {"todo", "followup"}, p \in 0..MaxUpstreamPriority }

NothingBuilt == [stage |-> "input"]

sync_build_row ==
    /\ row_out = NothingBuilt
    /\ row_out' =
         [ stage   |-> "built",
           outcome |-> RecordOutcome(cls_in, message_in, "ok"),
           row     |-> InsertedRow(1, SyncItem(cls_in, message_in)) ]
    /\ UNCHANGED <<tasks, todos, followups, nextId, caps, response, webhook_log,
                   syncVars, cls_in, message_in, poolVars, textVars, listVars, managerVars>>

\* ------------------------- sync_classifications on the DatabaseManager
\* the loop of sync_classifications with db.create_task run through the
\* pool: the awaits of the request are the fetch (line 109) and the lookup
\* (line 145); the repository method between them never awaits
\* the fetched records the loop stores with create_task
TaskRecords ==
    {cls \in ClassificationRecords :
        RecordOutcome(cls, NoMessage, "ok") = "persisted" /\ cls.label = "todo"}
Awaiting == [stage |-> "lookup"]

\* lines 96-125 of the one sync call explored, entered when the manager
\* runs no method
sync_fetch_between_calls ==
    /\ db_pc = "idle"
    /\ sync_pc = "idle"
    /\ sync_classifications_fetch

\* lines 129-147: the next record is taken and get_message awaited
sync_get_message ==
    /\ sync_pc = "loop"
    /\ sync_i < classifications_len
    /\ db_pc = "idle"
    /\ row_out = NothingBuilt
    /\ \E cls \in TaskRecords, message \in get_message :
          cls_in' = cls /\ message_in' = message
    /\ row_out' = Awaiting
    /\ UNCHANGED <<tasks, todos, followups, nextId, caps, response, webhook_log,
                   syncVars, poolVars, textVars, listVars, managerVars>>

\* lines 165-178: the TaskCreate is built and db.create_task entered
sync_create_task ==
    /\ row_out = Awaiting
    /\ db_result = NoResult
    /\ CallOf({[Call("create_task", 0, NoCall.updates)
                   EXCEPT !.item = SyncItem(cls_in, message_in)]})

\* lines 178-182 and 205-208: create_task returned an id (counted), None
\* (appended to errors) or raised (caught, appended); the iteration is over
sync_create_returned ==
    /\ row_out = Awaiting
    /\ db_pc = "idle"
    /\ db_result.kind = "create_task"
    /\ sync_i' = sync_i + 1
    /\ tasks_created' = IF ~db_result.raised /\ db_result.value # 0
                        THEN tasks_created + 1 ELSE tasks_created
    /\ errors' = IF db_result.raised
                 THEN Append(errors, ErrorProcessing(cls_in.cls_id))
                 ELSE IF db_result.value = 0
                 THEN Append(errors, CreateFailed("task", cls_in.cls_id))
                 ELSE errors
    /\ row_out' = NothingBuilt
    /\ db_result' = NoResult
    /\ UNCHANGED <<tasks, todos, followups, nextId, caps, response, webhook_log,
                   sync_pc, sync_user_id, db_user_id, classifications_len,
                   followups_created, fetch_state, sync_log, cls_in,
                   message_in, pool, free,
                   attempts, degraded, db_pc, db_call, clock, checked_out,
                   acquire_tries, textVars, listVars, managerVars>>

\* --------------------------------------------------------- specifications
vars == <<tasks, todos, followups, nextId, caps, response, webhook_log, syncVars,
          recordVars, poolVars, textVars, listVars, managerVars>>

\* the state after the module-level construction: empty tables, no request
InitEmptyTables ==
    /\ tasks = {}
    /\ todos = {}
    /\ followups = {}
    /\ nextId = [t \in Tables |-> 1]

\* no request was received yet
InitRequests(batch, messages, rows, held) ==
    /\ caps = [batch |-> batch, messages |-> messages, rows |-> rows,
               pool |-> PoolSize, clock |-> MaxClock, held |-> held]
    /\ response = NoResponse
    /\ webhook_log = <<>>
    /\ sync_pc = "idle"
    /\ sync_user_id = <<>>
    /\ db_user_id = 0
    /\ classifications_len = 0
    /\ sync_i = 0
    /\ tasks_created = 0
    /\ followups_created = 0
    /\ errors = <<>>
    /\ fetch_state = "none"
    /\ sync_log = <<>>
    /\ class_pool = 0
    /\ managers = [self \in Instances |-> NoManager]
InitIdle(batch, messages, rows) == InitRequests(batch, messages, rows, 0)

InitStore(batch, messages, rows) ==
    /\ InitEmptyTables
    /\ InitIdle(batch, messages, rows)

\* the pool was created by the constructor and no repository call is traced
InitPoolReady ==
    /\ pool = "present"
    /\ free = caps.pool
    /\ attempts = 0
    /\ degraded = FALSE
    /\ db_pc = "idle"
    /\ db_call = NoCall
    /\ db_result = NoResult
    /\ clock = 0
    /\ checked_out = 0
    /\ acquire_tries = 0

InitNoRecord ==
    /\ cls_in = NonObject
    /\ message_in = NoMessage
    /\ row_out = NothingBuilt

InitNoText ==
    /\ text_in = [task_text |-> <<>>, classification |-> "noise"]
    /\ text_out = NoTextOut

InitNoList ==
    /\ list_in = [args |-> PoolListArgs, tie |-> "asc"]
    /\ list_out = NothingListed

InitWith(batch, messages, rows) ==
    /\ InitStore(batch, messages, rows)
    /\ InitPoolReady
    /\ InitNoRecord
    /\ InitNoText
    /\ InitNoList

\* every entry point, interleaved at the sync call's await points
Init == InitWith(MixBatch, MixMessages, MixRows)
Next ==
    \/ sync_classifications_fetch
    \/ sync_classifications_record
    \/ sync_classifications_return
    \/ process_classifications
    \/ create_task
    \/ create_todo
    \/ create_followup
    \/ update_task
    \/ update_todo
    \/ update_followup
Spec == Init /\ [][Next]_vars

\* one sync call against the empty store, with batches up to MaxBatch
InitSync == InitWith(MaxBatch, 0, MaxBatch)
sync_first_fetch == sync_pc = "idle" /\ sync_classifications_fetch
NextSync ==
    \/ sync_first_fetch
    \/ sync_classifications_record
    \/ sync_classifications_return
SpecSync == InitSync /\ [][NextSync]_vars

\* sync calls repeated over one unchanged record, while the tables hold
\* fewer than ResyncRows rows
InitResync ==
    /\ InitStore(1, 0, ResyncRows)
    /\ InitPoolReady
    /\ InitNoText
    /\ InitNoList
    /\ cls_in \in ClassificationRecords
    /\ message_in \in get_message
    /\ row_out = NothingBuilt
NextResync ==
    \/ resync_fetch
    \/ resync_record
    \/ sync_classifications_return
SpecResync == InitResync /\ [][NextResync]_vars

\* webhook calls only, each on the empty store, with batches up to
\* MaxMessages (webhook calls on a store that holds rows are in Spec)
InitWebhook == InitWith(0, MaxMessages, MaxRows)
webhook_on_empty_store == RowCount = 0 /\ process_classifications
NextWebhook == webhook_on_empty_store
SpecWebhook == InitWebhook /\ [][NextWebhook]_vars

\* the loop body as a function of one record and one lookup answer
InitRecord ==
    /\ InitStore(0, 0, 0)
    /\ InitPoolReady
    /\ InitNoText
    /\ InitNoList
    /\ cls_in \in RecordInputs
    /\ message_in \in RecordMessages
    /\ row_out = NothingBuilt
NextRecord == sync_build_row
SpecRecord == InitRecord /\ [][NextRecord]_vars

\* the pool and the repository calls on the tasks table, from the
\* constructor's initialization on
InitConstructing ==
    /\ InitNoRecord
    /\ InitNoText
    /\ InitNoList
    /\ pool = "absent"
    /\ free = 0
    /\ attempts = 0
    /\ degraded = FALSE
    /\ db_pc = "construct"
    /\ db_call = NoCall
    /\ db_result = NoResult
    /\ clock = 0
    /\ checked_out = 0
    /\ acquire_tries = 0
InitPoolWith(rows) == InitStore(0, 0, rows) /\ InitConstructing
InitPool == InitPoolWith(MaxPoolRows)
NextPool ==
    \/ _initialize_pool
    \/ repository_call
    \/ _get_connection
    \/ _get_connection_again
    \/ run_statements
    \/ release_connection
    \/ tick
SpecPool == InitPool /\ [][NextPool]_vars

\* the pool and the repository calls on the empty tasks table, with the
\* history of the connections taken and not given back
InitCheckedOut ==
    /\ InitEmptyTables
    /\ InitRequests(0, 0, 0, PoolSize + 1)
    /\ InitConstructing
SpecCheckedOut == InitCheckedOut /\ [][NextPool]_vars

\* sync calls of up to InterleavedBatch records, with direct creates of
\* other requests between their awaits
InitInterleaved == InitWith(InterleavedBatch, 0, MixRows)
NextInterleaved ==
    \/ sync_classifications_fetch
    \/ sync_classifications_record
    \/ sync_classifications_return
    \/ create_task
SpecInterleaved == InitInterleaved /\ [][NextInterleaved]_vars

\* one sync call whose creates run through the pool, from the constructor on,
\* with the history of the connections taken and not given back
InitSyncPool ==
    /\ InitEmptyTables
    /\ InitRequests(PoolBatch, 0, MaxPoolRows, PoolSize + 1)
    /\ InitConstructing
NextSyncPool ==
    \/ _initialize_pool
    \/ sync_fetch_between_calls
    \/ sync_get_message
    \/ sync_create_task
    \/ _get_connection
    \/ _get_connection_again
    \/ run_statements
    \/ release_connection
    \/ sync_create_returned
    \/ sync_classifications_return
SpecSyncPool == InitSyncPool /\ [][NextSyncPool]_vars

\* the module-level constructions of the process, in any order
InitManagers == InitWith(0, 0, 0)
NextManagers == __init__
SpecManagers == InitManagers /\ [][NextManagers]_vars

\* create_task with either body followed by get_task, on a table of up to
\* RoundTripRows rows
InitRoundTrip == InitPoolWith(RoundTripRows)
NextRoundTrip ==
    \/ NextPool
    \/ create_task_with_every_field
SpecRoundTrip == InitRoundTrip /\ [][NextRoundTrip]_vars

\* the text heuristics as functions of one text and one classification
InitText ==
    /\ InitStore(0, 0, 0)
    /\ InitPoolReady
    /\ InitNoRecord
    /\ InitNoList
    /\ text_in \in TextInputs
    /\ text_out = NoTextOut
NextText == clean_and_extract
SpecText == InitText /\ [][NextText]_vars

\* one list call on a table of up to MaxListRows rows of one owner
InitList ==
    /\ InitIdle(0, 0, 0)
    /\ InitPoolReady
    /\ InitNoRecord
    /\ InitNoText
    /\ \E n \in 0..MaxListRows :
          /\ tasks = ListRows(n)
          /\ nextId = [t \in Tables |-> IF t = "tasks" THEN n + 2 ELSE 1]
    /\ todos = {}
    /\ followups = {}
    /\ list_in \in ListRequests
    /\ list_out = NothingListed
NextList ==
    \/ list_tasks
    \/ list_tasks_endpoint
SpecList == InitList /\ [][NextList]_vars

\* ------------------------------------------------------------------ claims
LogIndices == 1..Len(sync_log)
LogCount(outcomes) ==
    Cardinality({k \in LogIndices : sync_log[k].outcome \in outcomes})
LogCountOf(label, outcomes) ==
    Cardinality({k \in LogIndices :
                    sync_log[k].label = label /\ sync_log[k].outcome \in outcomes})
SyncReturned == sync_pc = "returned" /\ response.endpoint = "sync"

\* C1: in pull-sync a failure while processing one record never fails the
\* whole call: the call returns the aggregate result (status 200), every
\* record of the fetched list has been consumed, and each failed record has
\* its entry in the returned error list.
C1_RecordFailureNeverFailsCall ==
    (SyncReturned /\ fetch_state = "ok") =>
        /\ response.status = 200
        /\ sync_i = classifications_len
        /\ Len(response.errors) = LogCount({"failed", "exception", "raise"})

\* C2: a record (pull-sync) or message (webhook) labelled noise inserts no
\* row into tasks, todos or followups and increments no created-count: the
\* sync step that consumes a noise record leaves tables and counters as they
\* were; a webhook call attempts no create for a noise message, so it inserts
\* and counts at most as many items as it has messages that are not noise.
SyncConsumed == Len(sync_log') = Len(sync_log) + 1
ConsumedEntry == sync_log'[Len(sync_log')]
NotNoise(log) == {k \in 1..Len(log) : log[k].classification # "noise"}
C2_NoiseCreatesNothing ==
    [][ /\ (SyncConsumed /\ ConsumedEntry.label = "noise") =>
              /\ tasks' = tasks /\ todos' = todos /\ followups' = followups
              /\ tasks_created' = tasks_created
              /\ followups_created' = followups_created
        /\ (webhook_log' # <<>>) =>
              /\ Cardinality(tasks') + Cardinality(todos') + Cardinality(followups')
                    - RowCount <= Cardinality(NotNoise(webhook_log'))
              /\ response'.tasks_count + response'.todos_count
                    + response'.followups_count <= Cardinality(NotNoise(webhook_log'))
              /\ \A k \in 1..Len(webhook_log') :
                    webhook_log'[k].classification = "noise" =>
                        webhook_log'[k].create = "none" /\ webhook_log'[k].id = 0
      ]_vars
\* a sync call has skipped a noise record and a webhook call has just
\* answered a batch holding a noise message
C2_Witness ==
    /\ \E k \in LogIndices : sync_log[k].label = "noise" /\ sync_log[k].outcome = "skipped"
    /\ webhook_log # <<>>
    /\ webhook_log[1].classification = "noise"
    /\ response.endpoint = "webhook" /\ response.status = 200

\* C3: after any sequence of pull-sync, push-webhook, direct-create and
\* update operations every row of tasks, todos and followups has a priority
\* in 1..5.
C3_PriorityInRange ==
    \A r \in tasks \cup todos \cup followups : r.priority >= 1 /\ r.priority <= 5
\* an update has just set a priority while a row clamped from upstream
\* priority 12, or a row updated to 5, is stored
C3_Witness ==
    /\ response = [endpoint |-> "update", status |-> 200]
    /\ \E r \in tasks \cup todos \cup followups : r.priority = 5

\* C4: in pull-sync the priority stored for a record with upstream priority
\* p in 1..10 is clamp(floor(p/2), 1, 5): it lies in 1..5, it is floor(p/2)
\* unless that is below 1, and 1, 2, 3, 4, 10 give 1, 1, 1, 2, 5.
C4_PriorityMapping ==
    (row_out.stage = "built" /\ row_out.outcome = "persisted"
        /\ cls_in.priority.v >= 1 /\ cls_in.priority.v <= 10) =>
        LET p == cls_in.priority.v
            stored == row_out.row.priority
        IN /\ stored >= 1 /\ stored <= 5
           /\ \/ 2 * stored <= p /\ p < 2 * stored + 2
              \/ p < 2 /\ stored = 1
           /\ p = 1 => stored = 1
           /\ p = 2 => stored = 1
           /\ p = 3 => stored = 1
           /\ p = 4 => stored = 2
           /\ p = 10 => stored = 5
\* the record with upstream priority 10 was built into a row of priority 5
C4_Witness ==
    /\ row_out.stage = "built" /\ row_out.outcome = "persisted"
    /\ cls_in.priority.v = 10
    /\ row_out.row.priority = 5

\* C5: in pull-sync a failed message lookup is not an error of the record: the
\* record goes on to routing, and when the store accepts it the row has
\* sender "", no subject and type email; the call still reports every
\* fetched record as processed, and the error list holds only the records
\* whose create failed or whose processing raised.
C5_LookupFailureIsNotAnError ==
    /\ \A k \in LogIndices :
          sync_log[k].lookup = "failed" =>
             /\ sync_log[k].outcome \in {"persisted", "failed", "dropped"}
             /\ sync_log[k].outcome = "persisted" =>
                   \E r \in RowsOf(sync_log[k].table) :
                      /\ r.id = sync_log[k].id
                      /\ r.sender = <<>>
                      /\ r.subject = None
                      /\ r.message_type = "email"
    /\ (SyncReturned /\ response.status = 200 /\ fetch_state = "ok") =>
          /\ response.classifications_processed = Len(sync_log)
          /\ Len(response.errors) = LogCount({"failed", "exception"})
\* three records, only the second lookup failed: all three are persisted,
\* processed is 3 and there is no error
C5_Witness ==
    /\ SyncReturned
    /\ Len(sync_log) = 3
    /\ sync_log[1].lookup = "found" /\ sync_log[1].outcome = "persisted"
    /\ sync_log[2].lookup = "failed" /\ sync_log[2].outcome = "persisted"
    /\ sync_log[3].lookup = "found" /\ sync_log[3].outcome = "persisted"
    /\ response.classifications_processed = 3
    /\ response.errors = <<>>
    /\ RowCount = 3

\* C6: when the classification fetch fails the sync call creates no
\* WorkItem and answers with a normal result (status 200) whose
\* classifications_processed, tasks_created and followups_created are 0.
C6_FetchFailureReportsZero ==
    fetch_state = "failed" =>
        /\ sync_pc = "returned"
        /\ response.endpoint = "sync"
        /\ response.status = 200
        /\ response.classifications_processed = 0
        /\ response.tasks_created = 0
        /\ response.followups_created = 0
        /\ sync_log = <<>>
        /\ RowCount = 0
\* the fetch has failed and the call has answered
C6_Witness ==
    fetch_state = "failed" /\ sync_pc = "returned" /\ response.status = 200

\* C7: pull-sync stores a Task for each record labelled todo and a Followup
\* for each record labelled followup that the store accepts (the others are
\* in the error list), and never writes the todos table: during a sync call
\* todos stays as it was, tasks holds one row per persisted todo record and
\* followups one row per persisted followup record.
C7_SyncRoutesToTasksAndFollowups ==
    /\ todos = {}
    /\ Cardinality(tasks) = LogCountOf("todo", {"persisted"})
    /\ Cardinality(followups) = LogCountOf("followup", {"persisted"})
    /\ tasks_created = Cardinality(tasks)
    /\ followups_created = Cardinality(followups)
    /\ \A k \in LogIndices :
          /\ sync_log[k].label \in {"todo", "followup"} =>
                sync_log[k].outcome \in {"persisted", "failed", "exception"}
          /\ sync_log[k].outcome = "persisted" =>
                /\ sync_log[k].table =
                      (IF sync_log[k].label = "todo" THEN "tasks" ELSE "followups")
                /\ \E r \in RowsOf(sync_log[k].table) : r.id = sync_log[k].id
\* a todo record and a followup record were both persisted by one call
C7_Witness ==
    /\ SyncReturned
    /\ LogCountOf("todo", {"persisted"}) = 1
    /\ LogCountOf("followup", {"persisted"}) = 1
    /\ Cardinality(tasks) = 1 /\ Cardinality(followups) = 1

\* C8: in the push-webhook path a message labelled todo produces a Todo, one
\* labelled followup a Followup, and one with any other label (noise is
\* skipped), an unrecognized label included, produces a Task: a create on the
\* matching table is attempted for it.
C8_WebhookRouting ==
    \A k \in 1..Len(webhook_log) :
       LET e == webhook_log[k] IN
       /\ (e.classification = "todo" /\ e.valid) =>
              e.create # "none" /\ e.table = "todos"
       /\ (e.classification = "followup" /\ e.valid) =>
              e.create # "none" /\ e.table = "followups"
       /\ e.classification \notin {"todo", "followup", "noise"} =>
              e.create # "none" /\ e.table = "tasks"

\* C9: in the push-webhook path a message that fails schema validation is
\* skipped (no create is attempted for it) and the call does not fail: it
\* answers 200, and for every valid message that is not noise a create is
\* attempted, whose row is in its table when the store accepted it.
C9_InvalidMessageIsSkipped ==
    webhook_log # <<>> =>
        /\ response.endpoint = "webhook" /\ response.status = 200
        /\ \A k \in 1..Len(webhook_log) :
              LET e == webhook_log[k] IN
              /\ ~e.valid => e.create = "none" /\ e.id = 0
              /\ (e.valid /\ e.classification # "noise") =>
                    /\ e.create # "none"
                    /\ e.create = "ok" =>
                          \E r \in RowsOf(e.table) : r.id = e.id
\* a batch whose first message is invalid and whose second was persisted
C9_Witness ==
    /\ Len(webhook_log) = 2
    /\ ~webhook_log[1].valid
    /\ webhook_log[2].valid /\ webhook_log[2].create = "ok"
    /\ webhook_log[2].returned
    /\ response.todos_count + response.followups_count = 1

\* C10: in pull-sync every fetched record ends in exactly one of Skipped
\* (noise), Persisted (one row, one count) or Failed (one error entry), so
\* the returned classifications_processed is tasks_created +
\* followups_created + skipped records + error entries.
C10_EveryRecordHasOneOutcome ==
    (SyncReturned /\ response.status = 200 /\ fetch_state = "ok") =>
        /\ \A k \in LogIndices :
              sync_log[k].outcome \in {"skipped", "persisted", "failed", "exception"}
        /\ response.classifications_processed =
              response.tasks_created + response.followups_created
                + LogCount({"skipped"}) + Len(response.errors)

InitializingPcs == {"construct", "init", "reinit"}

\* C11: one pool initialization makes at most 3 creation attempts and then
\* stops: an attempt is made only after fewer than 3 failed ones, and the
\* initialization gives up exactly when the third fails.  When it gives up
\* the pool is absent and the acquire that ran it returns Unavailable (the
\* method returns its no-effect value, the tables untouched); an acquire that
\* finds the pool absent initializes it again, and when an attempt succeeds
\* the pool is present with all its connections and the acquire goes on to
\* take one.
C11_PoolInitializationIsBounded ==
    [][ /\ attempts' <= 2
        /\ (db_pc \in InitializingPcs /\ pool' = "absent") =>
              IF attempts < 2
              THEN db_pc' = db_pc /\ attempts' = attempts + 1
              ELSE /\ db_pc' = "idle"
                   /\ db_pc # "construct" =>
                         /\ db_result'.kind = db_call.kind
                         /\ ~db_result'.acquired
                         /\ ~db_result'.raised
                         /\ tasks' = tasks
        /\ (db_pc = "idle" /\ pool = "absent" /\ db_pc' # "idle") => db_pc' = "init"
        /\ (db_pc \in InitializingPcs /\ pool' = "present") =>
              /\ free' = PoolSize
              /\ db_pc = "init" => db_pc' = "get"
        /\ (db_pc = "get" /\ free = PoolSize) =>
              (db_pc' = "run" \/ (db_pc' = "reinit" /\ pool' = "absent"))
      ]_vars
\* an initialization used up its three attempts, a later call initialized
\* the pool and holds a live connection
C11_Witness ==
    degraded /\ pool = "present" /\ db_pc = "run" /\ db_call.conn = "connected"

\* C12: when the pool could not be initialized, acquire returns Unavailable
\* without raising and the repository method returns its no-effect value
\* without raising: create no id, get absent, list (empty, 0), update false,
\* delete false.
C12_UnavailableGivesNoEffect ==
    (db_pc = "idle" /\ db_result.kind # "" /\ ~db_result.acquired) =>
        /\ ~db_result.raised
        /\ CASE db_result.kind = "create_task" -> db_result.value = 0
             [] db_result.kind = "get_task"    -> ~db_result.value.found
             [] db_result.kind = "get_tasks"   ->
                   db_result.value.items = <<>> /\ db_result.value.total = 0
             [] db_result.kind = "update_task" -> db_result.value = FALSE
             [] db_result.kind = "delete_task" -> db_result.value = FALSE
\* three attempts failed and a list call got its empty result
C12_Witness ==
    /\ degraded /\ pool = "absent" /\ db_pc = "idle"
    /\ db_result.kind = "get_tasks" /\ ~db_result.acquired
    /\ db_result.value.total = 0

\* C13: every connection a repository method took from the pool is back in
\* the pool when the method has returned, whatever happened in between: with
\* no call in flight the pool holds all its connections.
C13_EveryConnectionIsReturned ==
    (db_pc = "idle" /\ pool = "present") => free = PoolSize

\* C14: a create, update or delete that changes the table reports success;
\* one that hits a data-layer error leaves the table as it was and reports
\* the failure by its return value (no id / false), never by raising.
C14_MutationCommitsOrRollsBack ==
    [][ (db_pc = "run" /\ db_pc' = "finally" /\ db_call.kind \in Mutating) =>
           /\ ~db_call'.raised
           /\ IF db_call.kind = "create_task"
              THEN (db_call'.value = 0) <=> (tasks' = tasks)
              ELSE (tasks' # tasks) => db_call'.value = TRUE
      ]_vars

\* C15: every row the pull-sync or the webhook persists has a title of at
\* most 200 characters. The row the pull-sync loop body builds from one
\* record and stores carries such a title.
C15_PersistedTitleIsCapped ==
    (row_out.stage = "built" /\ row_out.outcome = "persisted") =>
        Len(row_out.row.title) <= TitleMaxLen

\* C16: title cleanup is idempotent: cleaning the cleaned title again with
\* the same classification gives the same string.
C16_CleanupIsIdempotent ==
    text_out.stage = "done" => text_out.cleaned_again = text_out.clean_title

\* C17: the due date is now plus the offset of the first keyword, in table
\* order, that occurs anywhere in the lower-cased text; "Please reply ASAP"
\* gives now, "finish this week" gives now + 7 days; a text with no keyword
\* and no M/D date gives no due date.
KeywordHits(task_text) ==
    { k \in 1..Len(due_date_keywords) :
        Contains(LowerText(task_text), due_date_keywords[k].keyword) }
C17_DueDateFromFirstKeyword ==
    text_out.stage = "done" =>
        LET hits == KeywordHits(text_in.task_text) IN
        /\ hits # {} =>
              \E k \in hits :
                 /\ \A o \in hits : k <= o
                 /\ text_out.due_at = DueInDays(due_date_keywords[k].days)
        /\ text_in.task_text = <<"P","l","e","a","s","e"," ","r","e","p","l","y"," ","A","S","A","P">>
              => text_out.due_at = DueInDays(0)
        /\ text_in.task_text = <<"f","i","n","i","s","h"," ","t","h","i","s"," ","w","e","e","k">>
              => text_out.due_at = DueInDays(7)
        /\ (hits = {} /\ DateMatches(text_in.task_text) = {}) => text_out.due_at = None
\* a text holding eow before today: today comes first in the table
C17_Witness ==
    /\ text_out.stage = "done"
    /\ text_in.task_text = <<"e","o","w",","," ","n","o","t"," ","t","o","d","a","y">>
    /\ KeywordHits(text_in.task_text) = {1, 8}
    /\ text_out.due_at = DueInDays(0)

\* C18: update_task writes the provided fields among title, status, due_at
\* and priority to the row and stamps its updated_at, and leaves the other
\* fields of the row and the other rows as they were; with no field
\* provided, or no such row, it changes nothing and returns false; it
\* returns false when no connection is available.
UpdatableFields == {"title", "status", "due_at", "priority"}
C18_UpdateFrame ==
    [][ /\ (db_pc = "run" /\ db_pc' = "finally" /\ db_call.kind = "update_task") =>
             LET u == db_call.updates
                 target == {r \in tasks : r.id = db_call.id}
             IN
             /\ {r \in tasks' : r.id # db_call.id} = tasks \ target
             /\ \A r \in target :
                   \E n \in tasks' :
                      /\ n.id = r.id
                      /\ {m \in tasks' : m.id = r.id} = {n}
                      /\ \/ n = r /\ db_call'.value = FALSE
                         \/ /\ u.fields # {}
                            /\ db_call'.value = TRUE
                            /\ \A f \in UpdatableFields :
                                  n[f] = IF f \in u.fields THEN u[f] ELSE r[f]
                            /\ n.updated_at = clock
                            /\ \A f \in (DOMAIN r) \ (UpdatableFields \cup {"updated_at"}) :
                                  n[f] = r[f]
             /\ (u.fields = {} \/ target = {}) =>
                   (tasks' = tasks /\ db_call'.value = FALSE)
        /\ (db_call.kind = "update_task" /\ db_pc \in InitializingPcs \cup {"get", "get_again"}
               /\ db_pc' = "idle") =>
             (db_result'.value = FALSE /\ ~db_result'.raised /\ tasks' = tasks)
      ]_vars
\* an update of title and due_at applied at a later time to one of two rows
C18_Witness ==
    /\ db_pc = "finally" /\ db_call.kind = "update_task"
    /\ db_call.updates.fields = {"title", "due_at"}
    /\ db_call.value = TRUE
    /\ Cardinality(tasks) = 2
    /\ \E r \in tasks :
          /\ r.id = db_call.id
          /\ r.title = db_call.updates.title /\ r.due_at = db_call.updates.due_at
          /\ r.status = "open" /\ r.priority = 3
          /\ r.created_at = 0 /\ r.updated_at = 1

\* C19: total is the number of rows of the owner that match the filter,
\* whatever limit and offset are, and the page holds
\* min(limit, max(0, total - offset)) of them, each once; with 15 rows of
\* the owner, limit 10 and offset 10 give 5 items and total 15.
FilterMatches ==
    { r \in tasks :
        /\ r.user_id = list_in.args.user_id
        /\ list_in.args.status = "" \/ r.status = list_in.args.status
        /\ list_in.args.min_priority = 0 \/ r.priority >= list_in.args.min_priority }
FifteenRowsSecondPage ==
    /\ Cardinality({r \in tasks : r.user_id = WebhookUserId}) = 15
    /\ list_in.args = ListArgs(WebhookUserId, "", 0, 10, 10)
C19_Pagination ==
    list_out.stage = "returned" =>
        LET total == Cardinality(FilterMatches)
            rest == IF total > list_in.args.offset THEN total - list_in.args.offset ELSE 0
            items == list_out.items
        IN
        /\ list_out.total = total
        /\ Len(items) = IF list_in.args.limit < rest THEN list_in.args.limit ELSE rest
        /\ \A i \in 1..Len(items) : items[i] \in FilterMatches
        /\ \A i, j \in 1..Len(items) : i # j => items[i] # items[j]
        /\ FifteenRowsSecondPage => (Len(items) = 5 /\ list_out.total = 15)
C19_Witness ==
    /\ list_out.stage = "returned"
    /\ FifteenRowsSecondPage
    /\ Cardinality(tasks) = 16
    /\ Len(list_out.items) = 5 /\ list_out.total = 15

\* C20: the items are listed by priority descending and, among equal
\* priorities, by due_at ascending, an item without due_at coming after
\* the items of its priority that have one.
C20_OrderedNullsLast ==
    list_out.stage = "returned" =>
        \A i \in 1..(Len(list_out.items) - 1) :
            LET a == list_out.items[i]
                b == list_out.items[i + 1]
            IN
            /\ a.priority >= b.priority
            /\ a.priority = b.priority =>
                  IF a.due_at = None THEN b.due_at = None
                  ELSE b.due_at = None \/ a.due_at[2] <= b.due_at[2]

\* C21: the row create_task stores under the id it returns equals the body
\* on every field of the body, has created_at equal to updated_at, and has
\* status open when the body gave none; get_task on an id returns the stored
\* row of that id as it is, so the fetch right after the create returns it.
InputFields ==
    {"user_id", "source_msg_id", "title", "status", "due_at", "priority",
     "message_type", "sender", "subject"}
C21_CreateThenGetRoundTrip ==
    [][ /\ (db_pc = "run" /\ db_pc' = "finally" /\ db_call.kind = "create_task"
              /\ db_call'.value # 0) =>
             LET made == {r \in tasks' : r.id = db_call'.value} IN
             /\ Cardinality(made) = 1
             /\ \A r \in made :
                   /\ r \notin tasks
                   /\ \A f \in InputFields : r[f] = db_call.item[f]
                   /\ r.created_at = r.updated_at
                   /\ db_call.item = DirectItem(3) => r.status = "open"
        /\ (db_pc = "run" /\ db_pc' = "finally" /\ db_call.kind = "get_task") =>
             /\ tasks' = tasks
             /\ \/ db_call'.value = Absent
                \/ \E r \in tasks : r.id = db_call.id /\ db_call'.value = Found(r)
      ]_vars
\* get_task has returned, untouched, the row created from the body that
\* gives every field
C21_Witness ==
    /\ db_pc = "finally" /\ db_call.kind = "get_task"
    /\ db_call.value.found
    /\ db_call.value.row.id = db_call.id
    /\ \A f \in InputFields : db_call.value.row[f] = FullItem[f]
    /\ db_call.value.row.created_at = 1
    /\ db_call.value.row.updated_at = 1

\* C22: pull-sync does not deduplicate. Each call over the same unchanged
\* record, with the store available, stores one more row for the record when
\* the record is one the loop stores (label todo or followup, a priority
\* that is a number, a TaskCreate that validates): the new row has a fresh
\* id and repeats every other field of the rows stored for the record
\* before, and the call reports one item created. For any other record the
\* tables stay as they are.
ResyncStored == RecordOutcome(cls_in, message_in, "ok") = "persisted"
RowsOfRecord(rows) ==
    {r \in rows : r.source_msg_id = cls_in.msg_id /\ r.user_id = db_user_id}
C22_ResyncInsertsAgain ==
    [][ /\ (sync_pc = "loop" /\ sync_i' = sync_i + 1) =>
             IF ResyncStored
             THEN LET table == RouteOf(Lower(cls_in.label))
                      before == RowsOfRecord(RowsOf(table))
                      after == RowsOfRecord(IF table = "tasks" THEN tasks' ELSE followups')
                  IN /\ before \subseteq after
                     /\ Cardinality(after) = Cardinality(before) + 1
                     /\ \A n \in after \ before, o \in before :
                           /\ n.id # o.id
                           /\ \A f \in InputFields : n[f] = o[f]
                     /\ todos' = todos
                     /\ table = "tasks" => followups' = followups
                     /\ table = "followups" => tasks' = tasks
             ELSE <<tasks, todos, followups>>' = <<tasks, todos, followups>>
        /\ (sync_pc = "loop" /\ sync_pc' = "returned" /\ ResyncStored
              /\ response'.status = 200) =>
             response'.tasks_created + response'.followups_created = 1
      ]_vars
\* the second call has returned and the table holds two rows for the record
C22_Witness ==
    /\ sync_pc = "returned" /\ ResyncStored
    /\ response.status = 200 /\ response.tasks_created = 1
    /\ Cardinality(RowsOfRecord(tasks)) = 2
    /\ \E a, b \in tasks :
          a.id = 1 /\ b.id = 2 /\ \A f \in InputFields : a[f] = b[f]

\* C23: when no connection is available, the entry point of a create, an
\* update or a delete answers with status 500.
C23_UnavailableAnswers500 ==
    (db_pc = "idle" /\ db_result.kind \in Mutating /\ ~db_result.acquired) =>
        FailureStatus(db_result.kind) = 500

\* C24: the list entry point answers with the rows that match the filters of
\* the request, paged by limit and offset, as the repository list operation
\* returns them.
C24_ListEndpointReturnsMatches ==
    list_out.stage = "answered" =>
        /\ list_out.status = 200
        /\ list_out.items = get_tasks(tasks, list_in.args, list_in.tie).items

\* C25: create_task returns the generated id on success, and on failure a
\* value that tells the caller whether the store was unavailable or the
\* statement was refused: a create that had a connection and returned
\* without raising does not return the value of the unavailable store.
C25_CreateFailureTellsCause ==
    (db_pc = "idle" /\ db_result.kind = "create_task" /\ db_result.acquired
       /\ ~db_result.raised) =>
        db_result.value # UnavailableValue("create_task")

\* C26: every row pull-sync stores carries the cls_id of the record it came
\* from, together with the record's msg_id and the owner key.
C26_StoredWithClsId ==
    (row_out.stage = "built" /\ row_out.outcome = "persisted") =>
        /\ row_out.row.source_msg_id = cls_in.msg_id
        /\ row_out.row.user_id = db_user_id
        /\ "cls_id" \in DOMAIN row_out.row
        /\ row_out.row.cls_id = cls_in.cls_id

\* C27: rows stored for one owner identifier are never stored under the
\* owner key used for a different identifier: when a sync call comes for
\* another identifier than the call before, it resolves to another key than
\* the rows stored under the key of the call before.
C27_NoCrossOwnerSharing ==
    [][ (sync_user_id # <<>> /\ sync_user_id' # sync_user_id
           /\ \E r \in tasks \cup followups : r.user_id = db_user_id) =>
          db_user_id' # db_user_id
      ]_vars

\* C28: a numeric identifier is used as the owner key as it is, and a
\* non-numeric identifier resolves to the key derived from its MD5 digest,
\* the same one at every call and for the whole of the call.
C28_OwnerResolution ==
    sync_user_id # <<>> =>
        /\ sync_user_id = <<"7">> => db_user_id = 7
        /\ sync_user_id = <<"6","6","9","6","5","3","1","7","0">>
              => db_user_id = 669653170
        /\ sync_user_id = <<"a","l","i","c","e">> => db_user_id = 669653170
\* a call for the non-numeric identifier that stored a row under its key
C28_Witness ==
    /\ sync_pc = "returned" /\ sync_user_id = <<"a","l","i","c","e">>
    /\ db_user_id = 669653170
    /\ \E r \in tasks : r.user_id = 669653170

\* C29: title cleanup strips a listed prefix, capitalizes the first
\* character, then prepends "Reply: " for a followup whose text does not
\* start with reply, then truncates to 200 characters; the followup text
\* "call bob" becomes "Reply: Call bob".
TitleInClaimedOrder(task_text, classification) ==
    LET stripped == RemovePrefixes(Strip(task_text), 1)
        capital == IF stripped # <<>>
                   THEN <<UpperChar(stripped[1])>> \o DropFirst(stripped, 1)
                   ELSE stripped
        replied == IF classification = "followup"
                      /\ ~StartsWith(LowerText(capital), ReplyWord)
                   THEN ReplyPrefix \o capital
                   ELSE capital
    IN IF Len(replied) > TitleMaxLen
       THEN Prefix(replied, TitleKeptLen) \o <<".", ".", ".">>
       ELSE replied
C29_CleanupStepOrder ==
    text_out.stage = "done" =>
        /\ text_out.clean_title =
              TitleInClaimedOrder(text_in.task_text, text_in.classification)
        /\ text_in = [task_text |-> <<"c","a","l","l"," ","b","o","b">>,
                      classification |-> "followup"]
              => text_out.clean_title =
                   <<"R","e","p","l","y",":"," ","C","a","l","l"," ","b","o","b">>

\* C30: the title of a row built by pull-sync is the subject of the looked-up
\* message when it has one; else the first 100 characters of the body,
\* followed by "..." only when the body is longer than 100 characters; else
\* "Task from classification " followed by the first 8 characters of cls_id.
C30_SyncTitleFallbacks ==
    row_out.stage = "built" =>
        LET title == row_out.row.title
            hasSubject == message_in.found /\ message_in.subject \notin {None, <<>>}
            hasBody == message_in.found /\ message_in.body \notin {None, <<>>}
        IN /\ hasSubject => title = message_in.subject
           /\ (~hasSubject /\ hasBody /\ Len(message_in.body) > 100) =>
                 /\ Len(title) = 103
                 /\ \A i \in 1..100 : title[i] = message_in.body[i]
                 /\ \A i \in 101..103 : title[i] = "."
           /\ (~hasSubject /\ hasBody /\ Len(message_in.body) <= 100) =>
                 title = message_in.body
           /\ (~hasSubject /\ ~hasBody) =>
                 /\ Len(title) = Len(DefaultTitlePrefix) + 8
                 /\ \A i \in 1..Len(DefaultTitlePrefix) :
                        title[i] = DefaultTitlePrefix[i]
                 /\ \A i \in 1..8 :
                        title[Len(DefaultTitlePrefix) + i] = cls_in.cls_id[i]
C30_Witness ==
    /\ row_out.stage = "built"
    /\ row_out.outcome = "persisted"
    /\ message_in = MsgBody
    /\ Len(row_out.row.title) = 103
    /\ row_out.row.title[100] = "x"
    /\ row_out.row.title[101] = "."

\* the rows of the store that a webhook call made from the message
RowsFromMessage(message) ==
    {r \in tasks \cup todos \cup followups : r.source_msg_id = message.id}

\* C31 as stated: the push-webhook path applies the priority mapping of
\* pull-sync to each message: the stored priority is clamp(floor(p/2), 1, 5)
\* of the message's priority p.
C31_WebhookMapsPriority ==
    \A message \in WebhookMessages : \A r \in RowsFromMessage(message) :
        r.priority = Min(Max(message.priority \div 2, 1), 5)

\* C31: the push-webhook path stores the priority p of a message as it came:
\* validation admits only p in 1..5 (a message with another priority is
\* skipped), and the row stored for the message carries p itself.
C31_WebhookStoresPriorityAsGiven ==
    \A message \in WebhookMessages : \A r \in RowsFromMessage(message) :
        /\ message.priority \in 1..5
        /\ r.priority = message.priority
\* a row stored for the message of priority 3, which the mapping would make 1
C31_Witness ==
    \E message \in WebhookMessages :
        /\ message.priority = 3
        /\ \E e \in DOMAIN webhook_log :
              webhook_log[e].create = "ok" /\ webhook_log[e].table = "todos"
        /\ \E r \in todos : r.source_msg_id = message.id /\ r.priority = 3

\* C32: at every moment the number of connections checked out of the
\* Connection Pool Manager and not yet released is at most the configured
\* capacity, also after a failed get-connection has made acquire discard the
\* pool and initialize it again.
C32_CheckedOutWithinCapacity ==
    checked_out <= PoolSize

\* the positions of a _get_connection in progress, in the order the code
\* passes them
AcquirePcs == {"init", "get", "reinit", "get_again"}
AcquireRank(pc) ==
    CASE pc = "init"      -> 1
      [] pc = "get"       -> 2
      [] pc = "reinit"    -> 3
      [] pc = "get_again" -> 4
      [] OTHER            -> 5

\* C38: a single acquire always terminates: it runs at most two pool
\* initializations, with at most 6 creation attempts in total, and then
\* returns a connection or Unavailable, however the store fails.  Every step
\* of an acquire either makes one more creation attempt of the current
\* initialization (at most 3 each, at most the sixth of the acquire) or moves
\* on to a later position and never back; it ends with a connection in hand
\* or with the no-connection return of the method.
C38_AcquireTerminates ==
    [][ (db_pc \in AcquirePcs) =>
          /\ db_pc \in {"init", "reinit"} => acquire_tries < 6
          /\ acquire_tries' <= 6
          /\ \/ AcquireRank(db_pc') > AcquireRank(db_pc)
             \/ /\ db_pc' = db_pc
                /\ db_pc \in {"init", "reinit"}
                /\ attempts' = attempts + 1
                /\ attempts' < 3
          /\ AcquireRank(db_pc') = 5 =>
                \/ db_pc' = "run" /\ db_call'.conn \in {"connected", "stale"}
                \/ /\ db_pc' = "idle"
                   /\ db_result'.kind = db_call.kind
                   /\ ~db_result'.acquired
      ]_vars
\* the second initialization of an acquire succeeded at the sixth attempt
C38_Witness ==
    db_pc = "get_again" /\ acquire_tries = 6 /\ pool = "present"

\* C33: the connection pool is class-level and shared: all DatabaseManager
\* objects of the process use one and the same pool, so a pool initialized
\* through one object is the pool every other object acquires from, and the
\* process holds at most one pool.
C33_OnePoolShared ==
    /\ Cardinality(Pools) <= 1
    /\ \A a, b \in Instances :
          (managers[a].made /\ managers[b].made /\ _pool(a) # 0 /\ _pool(b) # 0) =>
              _pool(b) = _pool(a)

\* a step in which the sync request starts to wait on an upstream call: the
\* fetch of the classifications or the lookup of a message
UpstreamCallStarts ==
    \/ sync_pc \in {"idle", "returned"} /\ sync_pc' = "loop"
    \/ row_out = NothingBuilt /\ row_out' = Awaiting

\* C34: no database connection is held while a request waits on a
\* Classification Client or Message Client call: each connection is checked
\* out for one repository operation and released before the next upstream
\* call starts.
C34_NoConnectionAcrossUpstreamCall ==
    [][ UpstreamCallStarts => (db_pc = "idle" /\ checked_out = 0) ]_vars

\* the error entry of a consumed record that failed
FailingEntry(e) == e.outcome \in {"failed", "exception"}
ErrorOfEntry(e) ==
    IF e.outcome = "failed"
    THEN [kind |-> "create_failed",
          what |-> IF e.label = "todo" THEN "task" ELSE "followup",
          cls_id |-> e.cls_id]
    ELSE [kind |-> "exception", what |-> "", cls_id |-> e.cls_id]
FailingRecords == SelectSeq(sync_log, FailingEntry)

\* C35: within one sync request the records are processed one at a time in
\* fetch order, so the entries of the error list appear in the order of the
\* failing records in the fetched sequence, also when other requests run
\* between the awaits of this one; the returned list is that list.
C35_ErrorsInFetchOrder ==
    /\ Len(errors) = Len(FailingRecords)
    /\ \A k \in 1..Len(errors) : errors[k] = ErrorOfEntry(FailingRecords[k])
    /\ (SyncReturned /\ response.status = 200) => response.errors = errors
\* two records of different cls_id failed, and a direct create of another
\* request was answered before the sync call returned
C35_Witness ==
    /\ sync_pc = "loop"
    /\ Len(errors) = 2
    /\ errors[1].cls_id # errors[2].cls_id
    /\ errors[1].kind # errors[2].kind
    /\ response.endpoint = "create" /\ response.status = 201

\* C36: in pull-sync the Message Client is never called for a noise record;
\* for every other record it is called at most once (the one lookup of its
\* loop iteration) and before the routing decision: a record whose label is
\* neither todo nor followup is looked up too, and then dropped.
C36_LookupBeforeRouting ==
    \A k \in LogIndices :
       LET e == sync_log[k] IN
       /\ e.label = "noise" => (e.lookup = "none" /\ e.outcome = "skipped")
       /\ e.outcome \in {"persisted", "failed", "dropped"} => e.lookup # "none"
       /\ e.label \notin {"todo", "followup", "noise", JsonNull, "<nonobject>"} =>
             (e.lookup # "none" /\ e.outcome = "dropped")
\* a record labelled task was looked up and dropped, a noise record was not
\* looked up
C36_Witness ==
    /\ \E k \in LogIndices :
          /\ sync_log[k].label = "task"
          /\ sync_log[k].lookup = "found"
          /\ sync_log[k].outcome = "dropped"
    /\ \E k \in LogIndices :
          sync_log[k].label = "noise" /\ sync_log[k].lookup = "none"

\* C37: in the push-webhook response each created count equals the number of
\* returned items of that type, and an item is returned only when both its
\* insert and its read-back succeeded; so a count never exceeds the number of
\* rows the call inserted into that table (the store was empty before the
\* call), and is smaller when a read-back failed.
ReturnedEntries(table) ==
    {k \in 1..Len(webhook_log) :
        webhook_log[k].table = table /\ webhook_log[k].returned}
InsertedEntries(table) ==
    {k \in 1..Len(webhook_log) :
        webhook_log[k].table = table /\ webhook_log[k].create = "ok"}
CreatedCount(table) ==
    CASE table = "tasks" -> response.tasks_count
      [] table = "todos" -> response.todos_count
      [] table = "followups" -> response.followups_count
C37_CountsAreReturnedItems ==
    (response.endpoint = "webhook" /\ response.status = 200) =>
        \A table \in {"tasks", "todos", "followups"} :
           /\ CreatedCount(table) = Cardinality(ReturnedEntries(table))
           /\ ReturnedEntries(table) \subseteq InsertedEntries(table)
           /\ Cardinality(InsertedEntries(table)) = Cardinality(RowsOf(table))
           /\ CreatedCount(table) <= Cardinality(RowsOf(table))
\* a call inserted two rows into one table and returned only one of them,
\* because the read-back of the other failed
C37_Witness ==
    /\ response.endpoint = "webhook" /\ response.status = 200
    /\ \E table \in {"tasks", "todos", "followups"} :
          /\ CreatedCount(table) = 1
          /\ Cardinality(RowsOf(table)) = 2
          /\ \E k \in InsertedEntries(table) : ~webhook_log[k].returned

====
